---- MODULE Spec2Model ----
(***************************************************************************)
(* graph_sync: fetch -> merge -> upsert of Odoo module dependency graphs   *)
(* into Neo4j.  The module models                                          *)
(*   - fetcher.py : OdooJsonRPC.call, healthcheck, fetch_instance_data,    *)
(*                  fetch_all (asyncio.gather fan-out)                     *)
(*   - syncer.py  : _convert_to_graph_model, sync_modules, cleanup         *)
(*   - loader.py  : Neo4jLoader.create_schema / ingest                     *)
(*   - app.py     : get_sync_service, sync_task_wrapper                    *)
(* Python values are tagged records so that values of different Python     *)
(* types can be compared: int n is [int |-> n], a str is [str |-> segs]    *)
(* where segs is the string split at its underscores, None is              *)
(* [none |-> TRUE], a nested dict value is [map |-> ...].                  *)
(***************************************************************************)
EXTENDS Integers, Sequences, FiniteSets, TLC

VARIABLES
    pure,       \* last application of a pure function: its arguments and result
    instances,  \* the configured sources (of fetch_all, or of the service)
    fetch_options, \* fetch_all: the options shared by every task
    task,       \* fetch_all: per source, the coroutine fetch_instance_data
    remote,     \* per source, the requests the remote has received
    results,    \* fetch_all: whether it has returned, and the list it returned
    sync,       \* sync_modules: its position and locals
    loader,     \* Neo4jLoader: driver, session and position inside ingest
    store       \* the Neo4j database: node records, relationships, log

vars == <<pure, instances, fetch_options, task, remote, results, sync, loader, store>>
fetchVars == <<instances, fetch_options, task, remote, results>>
syncVars == <<sync, loader, store>>

---------------------------------------------------------------------------
(* Python values *)

I(n) == [int |-> n]
S(segs) == [str |-> segs]
None == [none |-> TRUE]
Nested == [map |-> "nested"]

IsInt(v) == DOMAIN v = {"int"}
IsStr(v) == DOMAIN v = {"str"}
IsNone(v) == DOMAIN v = {"none"}
IsList(v) == DOMAIN v = {"list"}

\* bool(v)
Truthy(v) ==
    IF IsNone(v) THEN FALSE
    ELSE IF IsInt(v) THEN v.int # 0
    ELSE IF IsStr(v) THEN v.str # <<>>
    ELSE TRUE

Digits == <<"0", "1", "2", "3", "4", "5", "6", "7", "8", "9">>

\* str(v), as used by an f-string: the segments of the resulting string
Str(v) ==
    IF IsStr(v) THEN v.str
    ELSE IF IsInt(v) THEN <<Digits[v.int + 1]>>
    ELSE <<"None">>

\* dict.get(k) and dict.get(k, default)
Get(d, k) == IF k \in DOMAIN d THEN d[k] ELSE None
GetOr(d, k, default) == IF k \in DOMAIN d THEN d[k] ELSE default

EmptyDict == [k \in {} |-> None]

\* {**a, **b}
DictUpdate(a, b) ==
    [k \in DOMAIN a \cup DOMAIN b |-> IF k \in DOMAIN b THEN b[k] ELSE a[k]]

\* s.startswith(prefix + "_") for a non-empty remainder
StartsWith(segs, prefix) ==
    /\ Len(segs) > Len(prefix)
    /\ SubSeq(segs, 1, Len(prefix)) = prefix

---------------------------------------------------------------------------
(* syncer.py: _convert_to_graph_model *)

\* fault variant of node_id: the raw id is used without the source's prefix
NoPrefixNodeId(instance_name, raw) == S(Str(raw))

\* f"{instance_name}_{node_data['id']}"
node_id(instance_name, raw) == S(instance_name.str \o Str(raw))

GraphNode(id, name, instance, properties) ==
    [id |-> id, name |-> name, instance |-> instance, properties |-> properties]

GraphEdge(source, target, type, properties) ==
    [source |-> source, target |-> target, type |-> type, properties |-> properties]

Graph(nodes, edges) == [nodes |-> nodes, edges |-> edges]

\* the loop "for node_data in ...: if node_id not in node_map: graph.nodes.append"
\* node_map holds exactly the ids of the nodes appended so far
RECURSIVE convert_nodes(_, _, _)
convert_nodes(instance_name, node_list, acc) ==
    IF node_list = <<>> THEN acc
    ELSE LET node_data == Head(node_list)
             nid == node_id(instance_name, node_data["id"])
         IN  convert_nodes(instance_name, Tail(node_list),
                IF \E i \in 1..Len(acc) : acc[i].id = nid
                THEN acc
                ELSE Append(acc, GraphNode(nid,
                                           GetOr(node_data, "label", S(<<>>)),
                                           instance_name, node_data)))

\* the loop "for edge_data in ...: graph.edges.append(GraphEdge(...))"
convert_edges(instance_name, edge_list, type) ==
    [i \in 1..Len(edge_list) |->
        GraphEdge(node_id(instance_name, edge_list[i]["from"]),
                  node_id(instance_name, edge_list[i]["to"]),
                  type, edge_list[i])]

\* node_data['id'], edge_data['from'], edge_data['to'] raise KeyError
RaisesKeyError(graph_data) ==
    \/ \E i \in 1..Len(graph_data.nodes) : "id" \notin DOMAIN graph_data.nodes[i]
    \/ \E i \in 1..Len(graph_data.edges) :
          ~({"from", "to"} \subseteq DOMAIN graph_data.edges[i])

convert_raises(graph_data, reverse_graph_data) ==
    \/ RaisesKeyError(graph_data)
    \/ /\ ~IsNone(reverse_graph_data)
       /\ RaisesKeyError(reverse_graph_data)

\* the value returned when nothing raises
_convert_to_graph_model(instance_name, graph_data, reverse_graph_data) ==
    LET fwd_nodes == convert_nodes(instance_name, graph_data.nodes, <<>>)
        fwd_edges == convert_edges(instance_name, graph_data.edges,
                                   S(<<"DEPENDS", "ON">>))
    IN  IF IsNone(reverse_graph_data)
        THEN Graph(fwd_nodes, fwd_edges)
        ELSE Graph(convert_nodes(instance_name, reverse_graph_data.nodes, fwd_nodes),
                   fwd_edges \o convert_edges(instance_name,
                                              reverse_graph_data.edges,
                                              S(<<"REQUIRED", "BY">>)))

---------------------------------------------------------------------------
(* fetcher.py: the merge of the forward and the reverse graph in           *)
(* fetch_instance_data.  A Python dict is a sequence of [k, v] entries in  *)
(* insertion order; assigning an existing key replaces its value in place. *)

DictKeys(d) == {d[i].k : i \in 1..Len(d)}
DictValues(d) == [i \in 1..Len(d) |-> d[i].v]
DictSet(d, k, v) ==
    IF k \in DictKeys(d)
    THEN [i \in 1..Len(d) |-> IF d[i].k = k THEN [k |-> k, v |-> v] ELSE d[i]]
    ELSE Append(d, [k |-> k, v |-> v])

GraphData(nodes, edges) == [nodes |-> nodes, edges |-> edges]

\* f"{edge.get('from')}-{edge.get('to')}"
edge_id(edge) == <<Str(Get(edge, "from")), "-", Str(Get(edge, "to"))>>

\* all_nodes = {node.get("id"): node for node in graph_data.nodes if "id" in node}
RECURSIVE forward_all_nodes(_, _)
forward_all_nodes(node_list, all_nodes) ==
    IF node_list = <<>> THEN all_nodes
    ELSE LET node == Head(node_list)
         IN  forward_all_nodes(Tail(node_list),
                IF "id" \in DOMAIN node
                THEN DictSet(all_nodes, Get(node, "id"), node)
                ELSE all_nodes)

\* for edge in graph_data.edges: all_edges[edge_id] = edge   (edge_id is never empty)
RECURSIVE forward_all_edges(_, _)
forward_all_edges(edge_list, all_edges) ==
    IF edge_list = <<>> THEN all_edges
    ELSE forward_all_edges(Tail(edge_list),
            DictSet(all_edges, edge_id(Head(edge_list)), Head(edge_list)))

\* for node in reverse_graph.get("nodes", []):
\*     if node_id and node_id not in all_nodes: all_nodes[node_id] = node
RECURSIVE reverse_all_nodes(_, _)
reverse_all_nodes(node_list, all_nodes) ==
    IF node_list = <<>> THEN all_nodes
    ELSE LET node == Head(node_list)
             nid == Get(node, "id")
         IN  reverse_all_nodes(Tail(node_list),
                IF Truthy(nid) /\ nid \notin DictKeys(all_nodes)
                THEN DictSet(all_nodes, nid, node)
                ELSE all_nodes)

\* for edge in reverse_graph.get("edges", []):
\*     if edge_id and edge_id not in all_edges: all_edges[edge_id] = edge
RECURSIVE reverse_all_edges(_, _)
reverse_all_edges(edge_list, all_edges) ==
    IF edge_list = <<>> THEN all_edges
    ELSE LET edge == Head(edge_list)
         IN  reverse_all_edges(Tail(edge_list),
                IF edge_id(edge) \notin DictKeys(all_edges)
                THEN DictSet(all_edges, edge_id(edge), edge)
                ELSE all_edges)

\* graph_data as fetch_instance_data assigns it to response.data
combined_graph_data(forward_graph, reverse_graph, include_reverse) ==
    IF ~include_reverse
    THEN GraphData(forward_graph.nodes, forward_graph.edges)
    ELSE GraphData(
            DictValues(reverse_all_nodes(reverse_graph.nodes,
                          forward_all_nodes(forward_graph.nodes, <<>>))),
            DictValues(reverse_all_edges(reverse_graph.edges,
                          forward_all_edges(forward_graph.edges, <<>>))))

---------------------------------------------------------------------------
(* loader.py: the records Neo4jLoader.ingest sends to the store *)

\* node_id if isinstance(node_id, str) and node_id.startswith('odoo_')
\* else f"odoo_{node_id}"
odoo_id(id) ==
    IF IsStr(id) /\ StartsWith(id.str, <<"odoo">>)
    THEN id
    ELSE S(<<"odoo">> \o Str(id))

\* isinstance(v, (str, int, float, bool)) or
\* (isinstance(v, list) and all(isinstance(x, (str, int, float, bool)) for x in v))
IsScalar(v) == IsInt(v) \/ IsStr(v)
IsPrimitive(v) ==
    \/ IsScalar(v)
    \/ IsList(v) /\ \A i \in 1..Len(v.list) : IsScalar(v.list[i])

primitive_props(properties) ==
    [k \in {k \in DOMAIN properties : IsPrimitive(properties[k])} |-> properties[k]]

\* {"id": node_id, "name": n.name, "instance": n.instance, **primitive_props}
node_record(n) ==
    DictUpdate([id |-> odoo_id(n.id), name |-> n.name, instance |-> n.instance],
               primitive_props(n.properties))

nodes_data(graph) == [i \in 1..Len(graph.nodes) |-> node_record(graph.nodes[i])]

\* {"source": source_id, "target": target_id, "type": e.type, **primitive_props}
edge_record(e) ==
    DictUpdate([source |-> odoo_id(e.source), target |-> odoo_id(e.target),
                type |-> e.type],
               primitive_props(e.properties))

edges_data(graph) == [i \in 1..Len(graph.edges) |-> edge_record(graph.edges[i])]

\* fault variant of rel_label_map: a kind without an entry is used as the label
LabelsEveryKind(raw_type) ==
    IF raw_type = S(<<"dependency">>) THEN S(<<"DEPENDS", "ON">>)
    ELSE IF raw_type = S(<<"reverse", "dependency">>) THEN S(<<"REQUIRED", "BY">>)
    ELSE raw_type

\* rel_label_map.get(raw_type)
rel_label_map(raw_type) ==
    IF raw_type = S(<<"dependency">>) THEN S(<<"DEPENDS", "ON">>)
    ELSE IF raw_type = S(<<"reverse", "dependency">>) THEN S(<<"REQUIRED", "BY">>)
    ELSE None

---------------------------------------------------------------------------
(* Inputs of the pure functions *)

MaxRecs == 3    \* records (nodes and edges) in the arguments of one application
MaxRuns == 2    \* calls of sync_modules, and of Neo4jLoader.ingest on one loader

NodeDicts ==
    { [id |-> I(1), label |-> S(<<"a">>)],
      [id |-> I(1), label |-> S(<<"b">>)],
      [id |-> I(2), label |-> S(<<"a">>)],
      [id |-> S(<<"odoo", "1">>), label |-> S(<<"a">>)],
      [label |-> S(<<"a">>)] }

EdgeDicts ==
    { [from |-> I(1), to |-> I(2)],
      [from |-> I(2), to |-> I(1)] }

InstanceNames == {S(<<"odoo">>), S(<<"A">>)}

Idle == [op |-> "idle"]

\* sync_modules has not been called.  run numbers the calls of sync_modules,
\* wrapped tells a call made by sync_task_wrapper on a service of its own, stmts
\* is the length of the store's trace when the call began, task_service tells
\* what the wrapper has done with the service of its own: not created it
\* ("none"), created it, or called its cleanup ("cleaned", or "cleanup_failed"
\* when closing the loader raised inside cleanup)
NoSync ==
    [pc |-> "idle", opts |-> None, module_ids |-> <<>>, fg |-> None, rg |-> None,
     graph |-> None, result |-> None, exception |-> None,
     run |-> 0, wrapped |-> FALSE, stmts |-> 0, task_service |-> "none"]

\* no Neo4jLoader has been constructed (self._neo4j_loader = None).  run is the
\* call of sync_modules that constructed the loader
NoLoader ==
    [pc |-> "idle", driver |-> "none", session |-> "none", caller |-> "none",
     graph |-> None, groups |-> <<>>, exception |-> None, run |-> 0]

\* an empty database; besides the database (nodes, rels) and the trace of the
\* statements sent to it (log) the record keeps, for comparing loads, the
\* contents at the start of the current ingest (begin) and the graph of the last
\* ingest that returned with nothing written to the database since (loaded)
EmptyStore ==
    [nodes |-> EmptyDict, rels |-> EmptyDict, log |-> <<>>,
     begin |-> [nodes |-> EmptyDict, rels |-> EmptyDict, loaded |-> None],
     loaded |-> None]

Init ==
    /\ pure = Idle
    /\ instances = <<>>
    /\ fetch_options = [include_reverse |-> TRUE]
    /\ task = <<>>
    /\ remote = <<>>
    /\ results = [returned |-> FALSE, list |-> <<>>]
    /\ sync = NoSync
    /\ loader = NoLoader
    /\ store = EmptyStore

\* OdooNeo4jSyncService._convert_to_graph_model applied to one pair of fragments
ApplyConvert(instance_name, graph_data, reverse_graph_data) ==
    /\ pure = Idle
    /\ pure' = [op |-> "convert",
                instance_name |-> instance_name,
                graph_data |-> graph_data,
                reverse_graph_data |-> reverse_graph_data,
                raised |-> convert_raises(graph_data, reverse_graph_data),
                graph |-> IF convert_raises(graph_data, reverse_graph_data)
                          THEN None
                          ELSE _convert_to_graph_model(instance_name, graph_data,
                                                       reverse_graph_data)]
    /\ UNCHANGED <<fetchVars, syncVars>>

\* the merge inside fetch_instance_data applied to one pair of fragments
ApplyCombine(forward_graph, reverse_graph, include_reverse) ==
    /\ pure = Idle
    /\ pure' = [op |-> "combine",
                forward_graph |-> forward_graph,
                reverse_graph |-> reverse_graph,
                include_reverse |-> include_reverse,
                graph_data |-> combined_graph_data(forward_graph, reverse_graph,
                                                   include_reverse)]
    /\ UNCHANGED <<fetchVars, syncVars>>

\* the converted graph handed to Neo4jLoader.ingest: the records it builds
ApplyRecords ==
    /\ pure.op = "convert"
    /\ ~pure.raised
    /\ pure' = [op |-> "records",
                instance_name |-> pure.instance_name,
                graph |-> pure.graph,
                nodes_data |-> nodes_data(pure.graph),
                edges_data |-> edges_data(pure.graph)]
    /\ UNCHANGED <<fetchVars, syncVars>>

ConvertInputs ==
    /\ pure = Idle
    /\ \E n1 \in 0..MaxRecs : \E e1 \in 0..(MaxRecs - n1) :
       \E fn \in [1..n1 -> NodeDicts] : \E fe \in [1..e1 -> EdgeDicts] :
           \/ \E instance_name \in InstanceNames :
                 ApplyConvert(instance_name, GraphData(fn, fe), None)
           \/ \E n2 \in 0..(MaxRecs - n1 - e1) : \E e2 \in 0..(MaxRecs - n1 - e1 - n2) :
              \E rn \in [1..n2 -> NodeDicts] : \E re \in [1..e2 -> EdgeDicts] :
              \E instance_name \in InstanceNames :
                 ApplyConvert(instance_name, GraphData(fn, fe), GraphData(rn, re))

CombineInputs ==
    /\ pure = Idle
    /\ \E n1 \in 0..MaxRecs : \E e1 \in 0..(MaxRecs - n1) :
       \E n2 \in 0..(MaxRecs - n1 - e1) : \E e2 \in 0..(MaxRecs - n1 - e1 - n2) :
       \E fn \in [1..n1 -> NodeDicts] : \E fe \in [1..e1 -> EdgeDicts] :
       \E rn \in [1..n2 -> NodeDicts] : \E re \in [1..e2 -> EdgeDicts] :
       \E include_reverse \in BOOLEAN :
           ApplyCombine(GraphData(fn, fe), GraphData(rn, re), include_reverse)

---------------------------------------------------------------------------
(* Claims about the merges (SpecMerge) *)

Count(seq, Test(_)) == Cardinality({i \in 1..Len(seq) : Test(seq[i])})
First(seq, Test(_)) ==
    seq[CHOOSE i \in 1..Len(seq) :
            Test(seq[i]) /\ \A j \in 1..(i - 1) : ~Test(seq[j])]

\* the node records given to _convert_to_graph_model, in the order it reads them
ConvertInputNodes ==
    pure.graph_data.nodes \o
    (IF IsNone(pure.reverse_graph_data) THEN <<>> ELSE pure.reverse_graph_data.nodes)

\* the node records given to the merge of fetch_instance_data that carry an id
CombineInputNodes ==
    SelectSeq(pure.forward_graph.nodes \o
              (IF pure.include_reverse THEN pure.reverse_graph.nodes ELSE <<>>),
              LAMBDA n : "id" \in DOMAIN n)

ConvertFirstSeenNode ==
    \A k \in 1..Len(ConvertInputNodes) :
        LET c == node_id(pure.instance_name, ConvertInputNodes[k]["id"])
            SameId(n) == node_id(pure.instance_name, n["id"]) = c
            HasId(g) == g.id = c
        IN  /\ Count(pure.graph.nodes, HasId) = 1
            /\ First(pure.graph.nodes, HasId).properties = First(ConvertInputNodes, SameId)

CombineFirstSeenNode ==
    \A k \in 1..Len(CombineInputNodes) :
        LET r == CombineInputNodes[k]["id"]
            SameId(n) == Get(n, "id") = r
        IN  /\ Count(pure.graph_data.nodes, SameId) = 1
            /\ First(pure.graph_data.nodes, SameId) = First(CombineInputNodes, SameId)

\* C6: in every merge of the fragments of one source (by _convert_to_graph_model
\* or by fetch_instance_data) every node id of the input has exactly one node in
\* the merged node list, and that node is the first record seen with the id.
C6_FirstSeenNode ==
    /\ (pure.op = "convert" /\ ~pure.raised) => ConvertFirstSeenNode
    /\ pure.op = "combine" => CombineFirstSeenNode

\* the edge keys (from, to) of a fragment's edge list
Endpoints(e) == <<Get(e, "from"), Get(e, "to")>>
EdgeKeys(edge_list) == {Endpoints(edge_list[i]) : i \in 1..Len(edge_list)}

ConvertUniqueEdges ==
    LET out == pure.graph.edges
    IN  \A i \in 1..Len(out) :
           LET SameKey(e) == /\ e.source = out[i].source
                             /\ e.target = out[i].target
                             /\ e.type = out[i].type
           IN  Count(out, SameKey) = 1

ConvertKeepsBothKinds ==
    IsNone(pure.reverse_graph_data) \/
    \A key \in EdgeKeys(pure.graph_data.edges) \cap EdgeKeys(pure.reverse_graph_data.edges) :
        LET Between(e) == /\ e.source = node_id(pure.instance_name, key[1])
                          /\ e.target = node_id(pure.instance_name, key[2])
        IN  {pure.graph.edges[i].type :
                i \in {j \in 1..Len(pure.graph.edges) : Between(pure.graph.edges[j])}}
            = {S(<<"DEPENDS", "ON">>), S(<<"REQUIRED", "BY">>)}

\* forward edges are one kind, reverse edges another: a key is expected once per
\* fragment it occurs in
CombineUniqueEdges ==
    LET fwd == EdgeKeys(pure.forward_graph.edges)
        rev == IF pure.include_reverse THEN EdgeKeys(pure.reverse_graph.edges) ELSE {}
    IN  \A key \in fwd \cup rev :
           LET SameKey(e) == Endpoints(e) = key
           IN  Count(pure.graph_data.edges, SameKey) =
                  (IF key \in fwd THEN 1 ELSE 0) + (IF key \in rev THEN 1 ELSE 0)

\* C7: in every merge an edge key (source node, target node, relationship kind)
\* of the input has exactly one edge in the merged edge list, and a forward and a
\* reverse edge between the same endpoints are both kept.
C7_UniqueEdges ==
    /\ (pure.op = "convert" /\ ~pure.raised) =>
           ConvertUniqueEdges /\ ConvertKeepsBothKinds
    /\ pure.op = "combine" => CombineUniqueEdges

\* the id carries the prefix "<instance_name>_"
CarriesPrefix(id, instance_name) == IsStr(id) /\ StartsWith(id.str, instance_name.str)

\* C8: canonicalisation is idempotent: a raw id that already carries the prefix of
\* its source is used unchanged by _convert_to_graph_model, and the loader leaves
\* the canonical id of a merged graph's node unchanged.
C8_CanonicalIdempotent ==
    /\ (pure.op = "convert" /\ ~pure.raised) =>
          \A k \in 1..Len(ConvertInputNodes) :
             LET raw == ConvertInputNodes[k]["id"]
                 HasRawId(g) == g.id = raw
             IN  CarriesPrefix(raw, pure.instance_name) =>
                    /\ node_id(pure.instance_name, raw) = raw
                    /\ Count(pure.graph.nodes, HasRawId) = 1
    /\ pure.op = "records" =>
          \A i \in 1..Len(pure.graph.nodes) :
             CarriesPrefix(pure.graph.nodes[i].id, pure.graph.nodes[i].instance) =>
                odoo_id(pure.graph.nodes[i].id) = pure.graph.nodes[i].id

---------------------------------------------------------------------------
(* fetcher.py: remote replies, OdooJsonRPC.call, healthcheck *)

MaxSources == 3     \* configured instances of one fetch_all

SourceNames == <<"A", "B", "C", "D", "E">>

\* models.Instance (the fields the fetcher reads)
Instance(i) == [name |-> S(<<SourceNames[i]>>)]

\* payloads a source's graph endpoints answer with
P12 == GraphData(<<[id |-> I(1), label |-> S(<<"a">>)], [id |-> I(2), label |-> S(<<"b">>)]>>,
                 <<[from |-> I(1), to |-> I(2)]>>)
P13 == GraphData(<<[id |-> I(1), label |-> S(<<"c">>)], [id |-> I(3), label |-> S(<<"d">>)]>>,
                 <<[from |-> I(1), to |-> I(3)]>>)
Payloads == {P12, P13}

Timeout == [kind |-> "timeout"]
Response(status, body) == [kind |-> "response", status |-> status, body |-> body]

\* what the session-info endpoint can answer
HealthReplies ==
    { Timeout,
      Response(500, EmptyDict),
      Response(200, [error |-> S(<<"session expired">>)]),
      Response(200, [result |-> Nested]) }

\* what a graph endpoint can answer
DataReplies ==
    { Timeout,
      Response(500, EmptyDict),
      Response(200, [error |-> [message |-> S(<<"access denied">>)]]) }
    \cup {Response(200, [result |-> payload]) : payload \in Payloads}

Returned(value) == [raised |-> FALSE, value |-> value, message |-> None]
Raised(message) == [raised |-> TRUE, value |-> None, message |-> message]

\* OdooGraphFetcher.healthcheck: every exception is caught and answered False
healthcheck(reply) ==
    IF reply.kind # "response" THEN Returned(FALSE)
    ELSE IF reply.status # 200 THEN Returned(FALSE)
    ELSE Returned("result" \in DOMAIN reply.body /\ "error" \notin DOMAIN reply.body)

\* fault variant of call: a result field is returned without a look at the error
ResultBeforeError(instance, reply) ==
    IF reply.kind = "timeout"
    THEN Raised(S(<<"Request to">> \o instance.name.str \o <<"timed out after 30 seconds">>))
    ELSE IF reply.status >= 400
    THEN Raised(S(<<"HTTP error">>))
    ELSE IF "result" \in DOMAIN reply.body
    THEN Returned(reply.body["result"])
    ELSE IF "error" \in DOMAIN reply.body
    THEN Raised(S(<<"Odoo API error">> \o
                  GetOr(reply.body["error"], "message", S(<<"error">>)).str))
    ELSE Returned(GraphData(<<>>, <<>>))

\* OdooJsonRPC.call: result.get("result", {}) or a raised Exception
call(instance, reply) ==
    IF reply.kind = "timeout"
    THEN Raised(S(<<"Request to">> \o instance.name.str \o <<"timed out after 30 seconds">>))
    ELSE IF reply.status >= 400
    THEN Raised(S(<<"HTTP error">>))
    ELSE IF "error" \in DOMAIN reply.body
    THEN Raised(S(<<"Odoo API error">> \o
                  GetOr(reply.body["error"], "message", S(<<"error">>)).str))
    ELSE Returned(GetOr(reply.body, "result", GraphData(<<>>, <<>>)))

---------------------------------------------------------------------------
(* fetcher.py: fetch_instance_data, one coroutine per instance *)

\* models.InstanceResponse is imported by fetcher.py but is not in src/models.py:
\* a SourceResult of the specification, success until an error is recorded
InstanceResponse(instance) ==
    [instance |-> instance, status |-> "success", data |-> None, error |-> None]

NewTask(instance) ==
    [pc |-> "created", response |-> InstanceResponse(instance.name),
     forward_graph |-> None, exception |-> None]

\* fault variant of except_Exception: the exception leaves the coroutine
ExceptionEscapes(t, e) == [t EXCEPT !.pc = "raised", !.exception = e]

\* fault variant of except_Exception: the message is recorded, the status is not
StatusLeftUnset(t, e) ==
    [t EXCEPT !.pc = "returned", !.response = [@ EXCEPT !.error = e]]

\* except Exception as e: response.status = "error"; response.error = str(e)
except_Exception(t, e) ==
    [t EXCEPT !.pc = "returned",
              !.response = [@ EXCEPT !.status = "error", !.error = e]]

\* fault variant of after_healthcheck: the answer of the health check is not read
IgnoresHealth(t, is_healthy) == [t EXCEPT !.pc = "forward"]

\* is_healthy = await fetcher.healthcheck(); if not is_healthy: ... return response
after_healthcheck(t, is_healthy) ==
    IF is_healthy.raised THEN except_Exception(t, is_healthy.message)
    ELSE IF ~is_healthy.value
    THEN [t EXCEPT !.pc = "returned",
                   !.response = [@ EXCEPT !.status = "error",
                                          !.error = S(<<"Instance">> \o t.response.instance.str
                                                      \o <<"is not healthy or not reachable">>)]]
    ELSE [t EXCEPT !.pc = "forward"]

\* fault variant of after_forward: a failed forward fetch is taken as an empty
\* fragment and the task goes on
ForwardFailureGoesOn(t, forward_graph, include_reverse) ==
    LET fg == IF forward_graph.raised THEN GraphData(<<>>, <<>>) ELSE forward_graph.value
    IN  IF include_reverse
        THEN [t EXCEPT !.pc = "reverse", !.forward_graph = fg]
        ELSE [t EXCEPT !.pc = "returned",
                       !.forward_graph = fg,
                       !.response = [@ EXCEPT !.data = combined_graph_data(fg, None, FALSE)]]

\* forward_graph = await fetcher.fetch_category_module_graph(...)
after_forward(t, forward_graph, include_reverse) ==
    IF forward_graph.raised THEN except_Exception(t, forward_graph.message)
    ELSE IF include_reverse
    THEN [t EXCEPT !.pc = "reverse", !.forward_graph = forward_graph.value]
    ELSE [t EXCEPT !.pc = "returned",
                   !.forward_graph = forward_graph.value,
                   !.response = [@ EXCEPT !.data =
                        combined_graph_data(forward_graph.value, None, FALSE)]]

\* fault variant of after_reverse: a failed reverse fetch keeps the forward fragment
KeepsForwardData(t, reverse_graph) ==
    [t EXCEPT !.pc = "returned",
              !.response = [@ EXCEPT !.data =
                   IF reverse_graph.raised
                   THEN combined_graph_data(t.forward_graph, None, FALSE)
                   ELSE combined_graph_data(t.forward_graph, reverse_graph.value, TRUE)]]

\* reverse_graph = await fetcher.fetch_reverse_category_module_graph(...), then the
\* merge of the two fragments
after_reverse(t, reverse_graph) ==
    IF reverse_graph.raised THEN except_Exception(t, reverse_graph.message)
    ELSE [t EXCEPT !.pc = "returned",
                   !.response = [@ EXCEPT !.data =
                        combined_graph_data(t.forward_graph, reverse_graph.value, TRUE)]]

\* the remote of source i receives a request / has answered its last request
Request(r, endpoint) == [r EXCEPT !.requests = Append(@, endpoint)]
Reply(r, reply) == [r EXCEPT !.replies = Append(@, reply)]
Issues(r, t) == IF t.pc \in {"forward", "reverse"} THEN Request(r, t.pc) ELSE r

Programs == pure = Idle /\ sync.pc = "idle" /\ loader.pc = "idle"
NotStarted == Programs /\ ~results.returned /\ instances = <<>>

\* fetch_all(instances, fetch_options) up to "await asyncio.gather(...)"
fetch_all(n, include_reverse) ==
    /\ NotStarted
    /\ instances' = [i \in 1..n |-> Instance(i)]
    /\ fetch_options' = [include_reverse |-> include_reverse]
    /\ task' = [i \in 1..n |-> NewTask(Instance(i))]
    /\ remote' = [i \in 1..n |-> [requests |-> <<>>, replies |-> <<>>]]
    /\ results' = IF n = 0 THEN [returned |-> TRUE, list |-> <<>>] ELSE results
    /\ UNCHANGED <<pure, syncVars>>

\* the event loop runs task i up to its first await (the health request)
task_start(i) ==
    /\ task[i].pc = "created"
    /\ task' = [task EXCEPT ![i].pc = "healthcheck"]
    /\ remote' = [remote EXCEPT ![i] = Request(@, "healthcheck")]
    /\ UNCHANGED <<pure, instances, fetch_options, results, syncVars>>

healthcheck_done(i, reply) ==
    /\ task[i].pc = "healthcheck"
    /\ LET t == after_healthcheck(task[i], healthcheck(reply))
       IN  /\ task' = [task EXCEPT ![i] = t]
           /\ remote' = [remote EXCEPT ![i] = Issues(Reply(@, reply), t)]
    /\ UNCHANGED <<pure, instances, fetch_options, results, syncVars>>

forward_done(i, reply) ==
    /\ task[i].pc = "forward"
    /\ LET t == after_forward(task[i], call(instances[i], reply),
                              fetch_options.include_reverse)
       IN  /\ task' = [task EXCEPT ![i] = t]
           /\ remote' = [remote EXCEPT ![i] = Issues(Reply(@, reply), t)]
    /\ UNCHANGED <<pure, instances, fetch_options, results, syncVars>>

reverse_done(i, reply) ==
    /\ task[i].pc = "reverse"
    /\ LET t == after_reverse(task[i], call(instances[i], reply))
       IN  /\ task' = [task EXCEPT ![i] = t]
           /\ remote' = [remote EXCEPT ![i] = Reply(@, reply)]
    /\ UNCHANGED <<pure, instances, fetch_options, results, syncVars>>

\* fault variant of processed_results: results of failed sources are dropped
OnlySuccesses(tasks) ==
    SelectSeq([i \in 1..Len(tasks) |-> tasks[i].response],
              LAMBDA r : r.status = "success")

\* results = await asyncio.gather(*tasks, return_exceptions=True), then the loop
\* that turns an exception into an error response
processed_results(tasks) ==
    [i \in 1..Len(tasks) |->
        IF tasks[i].pc = "raised"
        THEN [instance |-> instances[i].name, status |-> "error", data |-> None,
              error |-> S(<<"Unhandled exception">> \o tasks[i].exception.str)]
        ELSE tasks[i].response]

fetch_all_return ==
    /\ ~results.returned
    /\ Len(task) > 0
    /\ \A i \in 1..Len(task) : task[i].pc \in {"returned", "raised"}
    /\ results' = [returned |-> TRUE, list |-> processed_results(task)]
    /\ UNCHANGED <<pure, instances, fetch_options, task, remote, syncVars>>

FetchNext ==
    \/ \E n \in 0..MaxSources : \E include_reverse \in BOOLEAN :
          fetch_all(n, include_reverse)
    \/ \E i \in 1..Len(task) : task_start(i)
    \/ \E i \in 1..Len(task) : \E reply \in HealthReplies : healthcheck_done(i, reply)
    \/ \E i \in 1..Len(task) : \E reply \in DataReplies : forward_done(i, reply)
    \/ \E i \in 1..Len(task) : \E reply \in DataReplies : reverse_done(i, reply)
    \/ fetch_all_return

SpecFetch == Init /\ [][FetchNext]_vars

---------------------------------------------------------------------------
(* Merge across sources.  The multi-source service (OdooSyncService.sync_all, *)
(* called by test_syncer.py) is not in src/syncer.py: the union of the        *)
(* per-source graphs follows section 4.3 of the specification (first-seen     *)
(* node per canonical id, one edge per key).  Each source's graph is built by *)
(* _convert_to_graph_model under the source's name.                           *)

RECURSIVE union_nodes(_, _)
union_nodes(node_list, acc) ==
    IF node_list = <<>> THEN acc
    ELSE union_nodes(Tail(node_list),
            IF \E i \in 1..Len(acc) : acc[i].id = Head(node_list).id
            THEN acc ELSE Append(acc, Head(node_list)))

RECURSIVE union_edges(_, _)
union_edges(edge_list, acc) ==
    IF edge_list = <<>> THEN acc
    ELSE LET e == Head(edge_list)
         IN  union_edges(Tail(edge_list),
                IF \E i \in 1..Len(acc) : /\ acc[i].source = e.source
                                          /\ acc[i].target = e.target
                                          /\ acc[i].type = e.type
                THEN acc ELSE Append(acc, e))

source_graph(response) == _convert_to_graph_model(response.instance, response.data, None)

RECURSIVE sync_all_merge(_, _)
sync_all_merge(responses, acc) ==
    IF responses = <<>> THEN acc
    ELSE LET r == Head(responses)
         IN  sync_all_merge(Tail(responses),
                IF r.status = "success" /\ ~IsNone(r.data)
                THEN Graph(union_nodes(source_graph(r).nodes, acc.nodes),
                           union_edges(source_graph(r).edges, acc.edges))
                ELSE acc)

MergedGraph == sync_all_merge(results.list, Graph(<<>>, <<>>))

---------------------------------------------------------------------------
(* Claims about the fan-out (SpecFetch) *)

Tasks == 1..Len(task)

HealthyReply(reply) ==
    reply.kind = "response" /\ reply.status = 200 /\ DOMAIN reply.body = {"result"}
GraphReply(reply) ==
    reply.kind = "response" /\ reply.status = 200 /\ DOMAIN reply.body = {"result"}

\* the replies source i has given to requests of the endpoint
RepliesTo(i, endpoint) ==
    {remote[i].replies[k] :
        k \in {j \in 1..Len(remote[i].replies) : remote[i].requests[j] = endpoint}}

HealthFailed(i) == \E reply \in RepliesTo(i, "healthcheck") : ~HealthyReply(reply)
ForwardFailed(i) == \E reply \in RepliesTo(i, "forward") : ~GraphReply(reply)
ReverseFailed(i) == \E reply \in RepliesTo(i, "reverse") : ~GraphReply(reply)
SourceFailed(i) == HealthFailed(i) \/ ForwardFailed(i) \/ ReverseFailed(i)

\* C1: when fetch_all returns, the list holds one result per configured source,
\* in order, with status error for exactly the sources whose health check,
\* forward fetch or reverse fetch failed and status success for every other one.
C1_OneResultPerSource ==
    results.returned =>
        /\ Len(results.list) = Len(instances)
        /\ \A i \in 1..Len(instances) :
              /\ results.list[i].instance = instances[i].name
              /\ results.list[i].status = IF SourceFailed(i) THEN "error" ELSE "success"

\* C1 witness: three sources, one fails its health check, the two others succeed
C1_Witness ==
    /\ results.returned
    /\ Len(results.list) = 3
    /\ \E i \in 1..3 :
          /\ HealthFailed(i)
          /\ results.list[i].status = "error"
          /\ \A j \in (1..3) \ {i} : results.list[j].status = "success"

TaskStep(i) ==
    \/ task_start(i)
    \/ \E reply \in HealthReplies : healthcheck_done(i, reply)
    \/ \E reply \in DataReplies : forward_done(i, reply)
    \/ \E reply \in DataReplies : reverse_done(i, reply)

\* C2: fetch_instance_data never raises: a task is never left by an exception,
\* every failed call ends it with a returned result for its own source, and a
\* task that has not returned can take its next step.
C2_NeverRaises ==
    \A i \in Tasks :
        /\ task[i].pc # "raised"
        /\ IsNone(task[i].exception)
        /\ SourceFailed(i) => task[i].pc = "returned"
        /\ task[i].pc = "returned" => task[i].response.instance = instances[i].name
        /\ task[i].pc # "returned" => ENABLED TaskStep(i)

\* C2 witness: a reverse call raised (a timeout) and the task returned
C2_Witness ==
    \E i \in Tasks :
        /\ Timeout \in RepliesTo(i, "reverse")
        /\ task[i].pc = "returned"

\* C3: once the health check of a source has answered unhealthy (or raised), the
\* task has returned an error result and no forward or reverse request was ever
\* issued to that source.
C3_UnhealthyNoDataCalls ==
    \A i \in Tasks :
        HealthFailed(i) =>
            /\ task[i].pc = "returned"
            /\ task[i].response.status = "error"
            /\ \A k \in 1..Len(remote[i].requests) : remote[i].requests[k] = "healthcheck"

\* C3 witness: the health request itself raised (timeout) and fetch_all returned
C3_Witness ==
    /\ results.returned
    /\ \E i \in Tasks : Timeout \in RepliesTo(i, "healthcheck")
    /\ \E i \in Tasks : Response(500, EmptyDict) \in RepliesTo(i, "healthcheck")

Complete(r) ==
    /\ r.status \in {"success", "error"}
    /\ r.status = "success" => ~IsNone(r.data) /\ IsNone(r.error)
    /\ r.status = "error" => ~IsNone(r.error) /\ IsNone(r.data)

\* C5: every result returned by fetch_instance_data or by fetch_all is complete:
\* success with a fragment and no error message, or error with a message and no
\* fragment.
C5_NeverPartial ==
    /\ \A i \in Tasks : task[i].pc = "returned" => Complete(task[i].response)
    /\ \A i \in 1..Len(results.list) : Complete(results.list[i])

\* C5 witness: fetch_all returned both kinds of result
C5_Witness ==
    /\ results.returned
    /\ \E i \in 1..Len(results.list) : results.list[i].status = "success"
    /\ \E i \in 1..Len(results.list) :
          results.list[i].status = "error" /\ ReverseFailed(i)

NodeIds(graph) == {graph.nodes[i].id : i \in 1..Len(graph.nodes)}
EdgeTriples(graph) ==
    {<<graph.edges[i].source, graph.edges[i].target, graph.edges[i].type>> :
        i \in 1..Len(graph.edges)}

Scenario ==
    /\ results.returned
    /\ Len(results.list) = 2
    /\ ~fetch_options.include_reverse
    /\ results.list[1].data = P12
    /\ results.list[2].data = P13

\* C9: graphs of sources with different names never share a node id; for source A
\* (raw ids 1, 2, edge 1->2) and source B (raw ids 1, 3, edge 1->3) without
\* reverse traversal the merged graph has exactly the nodes A_1, A_2, B_1, B_3 and
\* exactly the dependency edges (A_1, A_2) and (B_1, B_3).
C9_NoCrossSourceCollision ==
    /\ results.returned =>
          \A i, j \in 1..Len(results.list) :
             (i # j /\ results.list[i].status = "success"
                    /\ results.list[j].status = "success") =>
                NodeIds(source_graph(results.list[i])) \cap
                NodeIds(source_graph(results.list[j])) = {}
    /\ Scenario =>
          /\ Len(MergedGraph.nodes) = 4
          /\ NodeIds(MergedGraph) = {S(<<"A", "1">>), S(<<"A", "2">>),
                                     S(<<"B", "1">>), S(<<"B", "3">>)}
          /\ Len(MergedGraph.edges) = 2
          /\ EdgeTriples(MergedGraph) =
                {<<S(<<"A", "1">>), S(<<"A", "2">>), S(<<"DEPENDS", "ON">>)>>,
                 <<S(<<"B", "1">>), S(<<"B", "3">>), S(<<"DEPENDS", "ON">>)>>}

\* C9 witness: the two-source scenario has run
C9_Witness == Scenario

---------------------------------------------------------------------------
(* loader.py: Neo4jLoader against the store.  store.nodes maps the id of a   *)
(* ModuleNode to its properties, store.rels maps <<source id, target id,     *)
(* label>> to the properties of the relationship, store.log is the trace of  *)
(* the statements the loader has sent, with their outcome.  The last_updated *)
(* timestamps are not part of the records.                                   *)

Put(f, k, v) == [x \in DOMAIN f \cup {k} |-> IF x = k THEN v ELSE f[x]]

Log(op, label) == [op |-> op, label |-> label]

\* Neo4jLoader(uri, username, password)
Neo4jLoader(caller, pc, graph, run) ==
    [pc |-> pc, driver |-> "open", session |-> "none", caller |-> caller,
     graph |-> graph, groups |-> <<>>, exception |-> None, run |-> run]

\* UNWIND $nodes AS node MERGE (m:ModuleNode {id: node.id}) SET m += node
RECURSIVE merge_nodes(_, _)
merge_nodes(nodes, records) ==
    IF records = <<>> THEN nodes
    ELSE LET node == Head(records)
             old == IF node["id"] \in DOMAIN nodes THEN nodes[node["id"]] ELSE EmptyDict
         IN  merge_nodes(Put(nodes, node["id"], DictUpdate(old, node)), Tail(records))

\* fault variant of merge_rels: CREATE in place of MERGE, a relationship per call
RECURSIVE CreatesRelationships(_, _, _, _)
CreatesRelationships(rels, nodes, group, label) ==
    IF group = <<>> THEN rels
    ELSE LET edge == Head(group)
             key == <<edge["source"], edge["target"], label, Cardinality(DOMAIN rels)>>
         IN  CreatesRelationships(
                IF edge["source"] \in DOMAIN nodes /\ edge["target"] \in DOMAIN nodes
                THEN Put(rels, key, edge)
                ELSE rels,
                nodes, Tail(group), label)

\* fault variant of merge_rels: the relationship is merged without the MATCH of
\* its endpoints
MergesWithoutMatch(rels, nodes, group, label) ==
    LET Key(edge) == <<edge["source"], edge["target"], label>>
    IN  [key \in DOMAIN rels \cup {Key(group[i]) : i \in 1..Len(group)} |->
            IF \E i \in 1..Len(group) : Key(group[i]) = key
            THEN group[CHOOSE i \in 1..Len(group) : Key(group[i]) = key]
            ELSE rels[key]]

\* UNWIND $edges AS edge MATCH (a {id: edge.source}) MATCH (b {id: edge.target})
\* MERGE (a)-[r:label]->(b) SET r += edge
RECURSIVE merge_rels(_, _, _, _)
merge_rels(rels, nodes, group, label) ==
    IF group = <<>> THEN rels
    ELSE LET edge == Head(group)
             key == <<edge["source"], edge["target"], label>>
             old == IF key \in DOMAIN rels THEN rels[key] ELSE EmptyDict
         IN  merge_rels(IF edge["source"] \in DOMAIN nodes /\ edge["target"] \in DOMAIN nodes
                        THEN Put(rels, key, DictUpdate(old, edge))
                        ELSE rels,
                        nodes, Tail(group), label)

\* edges_by_type[ed["type"]].append(ed): the groups in order of first occurrence
RECURSIVE edges_by_type(_, _)
edges_by_type(records, groups) ==
    IF records = <<>> THEN groups
    ELSE LET ed == Head(records)
         IN  edges_by_type(Tail(records),
                IF \E i \in 1..Len(groups) : groups[i].raw_type = ed["type"]
                THEN [i \in 1..Len(groups) |->
                        IF groups[i].raw_type = ed["type"]
                        THEN [groups[i] EXCEPT !.group = Append(@, ed)]
                        ELSE groups[i]]
                ELSE Append(groups, [raw_type |-> ed["type"], group |-> <<ed>>]))

\* a statement can succeed only through an open driver
Outcomes == IF loader.driver = "open" THEN BOOLEAN ELSE {FALSE}

\* neo4j.exceptions.Neo4jError raised by a statement of the named phase
Neo4jError(phase) == S(<<"Neo4jError", phase>>)

\* an exception leaves create_schema or ingest
loader_raises(l, e) == [l EXCEPT !.pc = "raised", !.session = IF @ = "open" THEN "closed" ELSE @,
                                 !.exception = e]

\* where create_schema returns to
after_schema(l) ==
    IF l.pc = "schema_index" THEN [l EXCEPT !.pc = "ingest"]
    ELSE [l EXCEPT !.pc = "nodes"]

\* fault variant of schema_result: a failed schema statement is only logged
SchemaFailureSwallowed(l, ok, next) == next

\* create_schema: "except Neo4jError as e: logger.error(...); raise"; next is the
\* loader after a statement that succeeded
schema_result(l, ok, next) ==
    IF ok THEN next ELSE loader_raises(l, Neo4jError("schema"))

\* create_schema: the uniqueness constraint (first write_transaction)
create_schema_constraint(ok) ==
    /\ loader.pc \in {"schema_constraint", "ingest_schema_constraint"}
    /\ ok \in Outcomes
    /\ store' = [store EXCEPT
            !.log = Append(@, Log(IF ok THEN "constraint" ELSE "schema_fail", None))]
    /\ loader' = schema_result(loader, ok,
                     [loader EXCEPT !.pc = IF @ = "schema_constraint"
                                           THEN "schema_index"
                                           ELSE "ingest_schema_index"])
    /\ UNCHANGED <<pure, fetchVars, sync>>

\* create_schema: the index on last_updated (second write_transaction)
create_schema_index(ok) ==
    /\ loader.pc \in {"schema_index", "ingest_schema_index"}
    /\ ok \in Outcomes
    /\ store' = [store EXCEPT
            !.log = Append(@, Log(IF ok THEN "index" ELSE "schema_fail", None))]
    /\ loader' = schema_result(loader, ok, after_schema(loader))
    /\ UNCHANGED <<pure, fetchVars, sync>>

\* ingest: the session is opened and the pre-ingest match of the node ids runs;
\* its failure is logged and ignored
ingest_node_match ==
    /\ loader.pc = "ingest"
    /\ \/ /\ loader.driver = "open"
          /\ store' = [store EXCEPT
                  !.log = @ \o <<Log("ingest", None), Log("match_nodes", None)>>,
                  !.begin = [nodes |-> store.nodes, rels |-> store.rels,
                             loaded |-> store.loaded],
                  !.loaded = None]
          /\ loader' = [loader EXCEPT !.pc = "ingest_schema_constraint",
                                      !.session = "open"]
       \/ /\ loader.driver # "open"
          /\ store' = store
          /\ loader' = loader_raises(loader, S(<<"driver closed">>))
    /\ UNCHANGED <<pure, fetchVars, sync>>

\* fault variant of after_nodes: a failed node transaction is not re-raised
NodeFailureIgnored(l, ok) ==
    [l EXCEPT !.pc = "edge_match", !.groups = edges_by_type(edges_data(l.graph), <<>>)]

\* try: session.write_transaction(ingest_nodes_tx) except Neo4jError: raise
after_nodes(l, ok) ==
    IF ok
    THEN [l EXCEPT !.pc = "edge_match", !.groups = edges_by_type(edges_data(l.graph), <<>>)]
    ELSE loader_raises(l, Neo4jError("nodes"))

ingest_nodes(ok) ==
    /\ loader.pc = "nodes"
    /\ ok \in Outcomes
    /\ store' = [store EXCEPT
            !.nodes = IF ok THEN merge_nodes(@, nodes_data(loader.graph)) ELSE @,
            !.log = @ \o <<Log("nodes_begin", None),
                           Log(IF ok THEN "nodes_commit" ELSE "nodes_fail", None)>>]
    /\ loader' = after_nodes(loader, ok)
    /\ UNCHANGED <<pure, fetchVars, sync>>

\* the pre-ingest match of the edge endpoints; its failure is logged and ignored
ingest_edge_match ==
    /\ loader.pc = "edge_match"
    /\ store' = [store EXCEPT !.log = Append(@, Log("match_edges", None))]
    /\ loader' = [loader EXCEPT !.pc = "edges"]
    /\ UNCHANGED <<pure, fetchVars, sync>>

\* fault variant of after_edges: a failed edge group is skipped, the loop goes on
EdgeFailureSkipped(l, ok) == [l EXCEPT !.groups = Tail(@)]

\* try: session.write_transaction(ingest_edges_tx) except Neo4jError: raise
after_edges(l, ok) ==
    IF ok THEN [l EXCEPT !.groups = Tail(@)]
    ELSE loader_raises(l, Neo4jError("edges"))

\* one iteration of "for raw_type, group in edges_by_type.items()"
ingest_edge_group(ok) ==
    /\ loader.pc = "edges"
    /\ loader.groups # <<>>
    /\ LET raw_type == Head(loader.groups).raw_type
           group == Head(loader.groups).group
           label == rel_label_map(raw_type)
       IN  IF IsNone(label)
           THEN /\ ok
                /\ store' = store
                /\ loader' = [loader EXCEPT !.groups = Tail(@)]
           ELSE /\ ok \in Outcomes
                /\ store' = [store EXCEPT
                        !.rels = IF ok THEN merge_rels(@, store.nodes, group, label) ELSE @,
                        !.log = @ \o <<Log("edges_begin", label),
                                       Log(IF ok THEN "edges_commit" ELSE "edges_fail", label)>>]
                /\ loader' = after_edges(loader, ok)
    /\ UNCHANGED <<pure, fetchVars, sync>>

\* the "with self.driver.session() as session" block is left
ingest_session_exit ==
    /\ loader.pc = "edges"
    /\ loader.groups = <<>>
    /\ loader' = [loader EXCEPT !.pc = "verify", !.session = "closed"]
    /\ UNCHANGED <<pure, fetchVars, sync, store>>

\* fault variant of after_verify: a failed verification read leaves ingest
VerifyFailureRaises(l, ok) ==
    IF ok THEN [l EXCEPT !.pc = "returned"]
    ELSE loader_raises(l, S(<<"verification">>))

\* try: ... except Exception as e: logger.warning("Post-ingest verification failed")
after_verify(l, ok) == [l EXCEPT !.pc = "returned"]

\* the post-ingest reads run on the session of the "with" block that was left:
\* whether a read on it still answers depends on the driver, so both outcomes
\* occur; ingest returns after either
ingest_verify(ok) ==
    /\ loader.pc = "verify"
    /\ ok \in Outcomes
    /\ store' = [store EXCEPT
            !.log = Append(@, Log(IF ok THEN "verify" ELSE "verify_fail", None)),
            !.loaded = loader.graph]
    /\ loader' = after_verify(loader, ok)
    /\ UNCHANGED <<pure, fetchVars, sync>>

\* graphs handed to Neo4jLoader.ingest directly (test_loader.py)
IngestNode(k) ==
    GraphNode(S(<<"module", Digits[k + 1]>>), S(<<"Test Module">>), S(<<"test">>),
              [depth |-> I(k), complex_value |-> Nested, nothing |-> None,
               tags |-> [list |-> <<S(<<"a">>), S(<<"b">>)>>],
               mixed |-> [list |-> <<I(1), S(<<"a">>)>>],
               deep |-> [list |-> <<I(1), Nested>>]])
IngestEdge(type) ==
    GraphEdge(S(<<"module", "1">>), S(<<"module", "2">>), type,
              [depth |-> I(1), complex_value |-> Nested])
IngestGraphs ==
    { Graph(<<IngestNode(1), IngestNode(2)>>, <<IngestEdge(S(<<"DEPENDS", "ON">>))>>),
      Graph(<<IngestNode(1), IngestNode(2)>>, <<IngestEdge(S(<<"dependency">>))>>),
      Graph(<<IngestNode(1), IngestNode(2)>>,
            <<IngestEdge(S(<<"mystery">>)), IngestEdge(S(<<"dependency">>)),
              IngestEdge(S(<<"reverse", "dependency">>))>>),
      Graph(<<IngestNode(1)>>, <<IngestEdge(S(<<"dependency">>))>>) }

---------------------------------------------------------------------------
(* syncer.py: the RPC helpers and sync_modules *)

\* _make_rpc_request: every failure is raised as OdooRpcError
_make_rpc_request(reply) ==
    IF reply.kind = "timeout"
    THEN Raised(S(<<"Failed to connect to Odoo API">>))
    ELSE IF reply.status >= 400
    THEN Raised(S(<<"Failed to connect to Odoo API">>))
    ELSE IF "error" \in DOMAIN reply.body
    THEN Raised(S(<<"Unexpected error in RPC request: Odoo API error">> \o
                  GetOr(reply.body["error"], "message", S(<<"Unknown error">>)).str))
    ELSE Returned(GetOr(reply.body, "result", GraphData(<<>>, <<>>)))

\* fetch_modules_by_category: module_ids = [node["id"] for node in result["nodes"]]
fetch_modules_by_category(reply) ==
    LET result == _make_rpc_request(reply)
    IN  IF result.raised
        THEN Raised(S(<<"Failed to fetch modules by category">> \o result.message.str))
        ELSE IF \E i \in 1..Len(result.value.nodes) : "id" \notin DOMAIN result.value.nodes[i]
        THEN Raised(S(<<"Failed to fetch modules by category", "id">>))
        ELSE Returned([i \in 1..Len(result.value.nodes) |-> result.value.nodes[i]["id"]])

\* fetch_module_graph
fetch_module_graph(reply) ==
    LET result == _make_rpc_request(reply)
    IN  IF result.raised
        THEN Raised(S(<<"Failed to fetch module graph">> \o result.message.str))
        ELSE result

\* fetch_reverse_graph
fetch_reverse_graph(reply) ==
    LET result == _make_rpc_request(reply)
    IN  IF result.raised
        THEN Raised(S(<<"Failed to fetch reverse module graph">> \o result.message.str))
        ELSE result

---------------------------------------------------------------------------
(* Inputs of the RPC helpers, and the specification of the pure functions *)

\* the error object of a JSON-RPC reply, as Odoo's dispatcher builds it, with and
\* without a result next to it, and an error object without a message
RpcReplies ==
    DataReplies \cup
    { Response(200, [error |-> [message |-> S(<<"access denied">>)], result |-> P12]),
      Response(200, [error |-> [message |-> S(<<"not found">>), code |-> I(2)]]),
      Response(200, [error |-> [code |-> I(2)]]) }

\* OdooJsonRPC.call applied to one reply
ApplyCall(instance, reply) ==
    /\ pure = Idle
    /\ pure' = [op |-> "call", instance |-> instance, reply |-> reply,
                result |-> call(instance, reply)]
    /\ UNCHANGED <<fetchVars, syncVars>>

\* _make_rpc_request applied to one reply, and the fetch method that made the
\* request: what the method returns or raises to sync_modules
ApplyRpc(endpoint, reply) ==
    /\ pure = Idle
    /\ pure' = [op |-> "rpc", endpoint |-> endpoint, reply |-> reply,
                result |-> _make_rpc_request(reply),
                fetched |-> IF endpoint = "category" THEN fetch_modules_by_category(reply)
                            ELSE IF endpoint = "module" THEN fetch_module_graph(reply)
                            ELSE fetch_reverse_graph(reply)]
    /\ UNCHANGED <<fetchVars, syncVars>>

RpcInputs ==
    /\ pure = Idle
    /\ \E reply \in RpcReplies :
          \/ \E i \in 1..MaxSources : ApplyCall(Instance(i), reply)
          \/ \E endpoint \in {"category", "module", "reverse"} : ApplyRpc(endpoint, reply)

NextMerge == ConvertInputs \/ CombineInputs \/ ApplyRecords \/ RpcInputs

SpecMerge == Init /\ [][NextMerge]_vars

sync_raises(s, e) == [s EXCEPT !.pc = "raised", !.exception = e]

\* fault variant of with_module_ids: an empty list of ids is fetched all the same
EmptyIdsFetched(s, module_ids) == [s EXCEPT !.pc = "forward", !.module_ids = module_ids]

\* if not module_ids: return {"status": "warning", ...}; else the forward fetch
with_module_ids(s, module_ids) ==
    IF module_ids = <<>>
    THEN [s EXCEPT !.pc = "returned",
                   !.result = [status |-> "warning", stats |-> None]]
    ELSE [s EXCEPT !.pc = "forward", !.module_ids = module_ids]

\* sync_modules up to its first request (lines 239-259)
sync_start(opts) ==
    LET s == [NoSync EXCEPT !.opts = opts, !.run = sync.run + 1,
                            !.stmts = Len(store.log)]
    IN  IF opts.module_ids = <<>> /\ opts.category_prefixes # <<>>
        THEN [s EXCEPT !.pc = "category"]
        ELSE with_module_ids(s, opts.module_ids)

\* graph = self._convert_to_graph_model(instance_name, fg, rg), then
\* loader = self.get_neo4j_loader()
converted(s) ==
    IF convert_raises(s.fg, s.rg)
    THEN sync_raises(s, S(<<"KeyError">>))
    ELSE [s EXCEPT !.pc = "loading",
                   !.graph = _convert_to_graph_model(s.opts.instance_name, s.fg, s.rg)]

\* fg = self.fetch_module_graph(module_ids, graph_opts)
sync_after_forward(s, fg) ==
    IF fg.raised THEN sync_raises(s, fg.message)
    ELSE IF s.opts.include_reverse
    THEN [s EXCEPT !.pc = "reverse", !.fg = fg.value]
    ELSE converted([s EXCEPT !.fg = fg.value])

\* rg = self.fetch_reverse_graph(module_ids, graph_opts)
sync_after_reverse(s, rg) ==
    IF rg.raised THEN sync_raises(s, rg.message)
    ELSE converted([s EXCEPT !.rg = rg.value])

\* fault variant of get_neo4j_loader: the loader is obtained before the reverse fetch
LoaderBeforeReverse(s) ==
    IF s.pc \in {"reverse", "loading"} /\ loader.driver = "none"
    THEN Neo4jLoader("sync", "schema_constraint", s.graph, s.run)
    ELSE IF s.pc = "loading"
    THEN [loader EXCEPT !.pc = "schema_constraint", !.caller = "sync",
                        !.graph = s.graph, !.groups = <<>>, !.exception = None]
    ELSE loader

\* get_neo4j_loader: the loader is constructed on the first use
get_neo4j_loader(s) ==
    IF s.pc = "loading" /\ loader.driver = "none"
    THEN Neo4jLoader("sync", "schema_constraint", s.graph, s.run)
    ELSE IF s.pc = "loading"
    THEN [loader EXCEPT !.pc = "schema_constraint", !.caller = "sync",
                        !.graph = s.graph, !.groups = <<>>, !.exception = None]
    ELSE loader

\* the category endpoint found no module of the prefixes
NoModules == Response(200, [result |-> GraphData(<<>>, <<>>)])

\* what the endpoints answer to the requests of sync_modules: the category and
\* the forward endpoint fail or answer the graph of modules 1 and 2, the reverse
\* endpoint fails or answers either graph; the category endpoint can also answer
\* a graph without nodes
SyncReplies(endpoint) ==
    IF endpoint = "reverse" THEN DataReplies
    ELSE IF endpoint = "category"
    THEN (DataReplies \ {Response(200, [result |-> P13])}) \cup {NoModules}
    ELSE DataReplies \ {Response(200, [result |-> P13])}

SyncIssues(r, s) ==
    IF s.pc \in {"category", "forward", "reverse"} THEN Request(r, s.pc) ELSE r

SyncOptions ==
    [module_ids : {<<>>, <<I(1)>>},
     category_prefixes : {<<>>, <<"Custom">>},
     include_reverse : BOOLEAN,
     instance_name : InstanceNames]

\* a call of sync_modules can begin: the first one, or one after the call before
\* it has returned or raised (to the wrapper's caller, if the wrapper made it)
CanStartRun ==
    \/ NotStarted /\ remote = <<>>
    \/ /\ sync.run < MaxRuns
       /\ \/ sync.pc \in {"returned", "raised"} /\ ~sync.wrapped
          \/ sync.pc = "task_returned"

\* app.get_sync_service: the service's Odoo endpoint is config.instances[0]; the
\* value is the index of the configured instance the service sends its requests to
get_sync_service(config_instances) ==
    IF config_instances = <<>> THEN Raised(S(<<"No Odoo instance configured">>))
    ELSE Returned(1)

\* the remotes of the configured instances at the start of a run of the service
SyncRemotes(config_instances, s) ==
    [i \in 1..Len(config_instances) |->
        IF i = get_sync_service(config_instances).value
        THEN SyncIssues([requests |-> <<>>, replies |-> <<>>], s)
        ELSE [requests |-> <<>>, replies |-> <<>>]]

\* service.sync_modules(options); a later call is made on the same service, whose
\* _neo4j_loader is what the call before left
sync_modules(opts) ==
    /\ CanStartRun
    /\ loader.caller \in {"none", "sync"}
    /\ sync.run > 0 => opts = sync.opts
    /\ sync' = sync_start(opts)
    /\ remote' = SyncRemotes(IF instances = <<>> THEN <<Instance(1)>> ELSE instances,
                             sync_start(opts))
    /\ UNCHANGED <<pure, instances, fetch_options, task, results, loader, store>>

\* how many instances the configuration of the service lists: one, or more
ConfiguredInstances == {1, 2}

\* app.trigger_sync and sync_task_wrapper: the service is built by get_sync_service
\* from a configuration of n instances, the wrapper runs
\* task_service = OdooNeo4jSyncService(sync_service.config) and then
\* task_service.sync_modules(options)
task_service_created(opts) ==
    [sync_start(opts) EXCEPT !.wrapped = TRUE, !.task_service = "created"]

\* fault variant of wrapper_result: the caught exception is raised again
WrapperReraises(s) == s.result

\* "return result", or "except Exception as e: return {"status": "error", ...}"
wrapper_result(s) ==
    IF s.pc = "raised" THEN [status |-> "error", stats |-> None] ELSE s.result

\* fault variant of finally_cleanup: no cleanup after a run that raised
CleanupOnSuccessOnly(s, ok) ==
    IF s.pc = "raised" THEN s.task_service
    ELSE IF ok THEN "cleaned" ELSE "cleanup_failed"

\* "finally: if task_service: try: task_service.cleanup() except Exception: log"
finally_cleanup(s, ok) ==
    IF s.task_service = "none" THEN "none"
    ELSE IF ok THEN "cleaned" ELSE "cleanup_failed"

\* OdooNeo4jSyncService(config) raised inside the wrapper's try: the error result
\* is returned, and "finally: if task_service:" finds no service to clean up
task_service_fails(opts) ==
    LET s == sync_raises([NoSync EXCEPT !.opts = opts, !.run = sync.run + 1,
                                        !.stmts = Len(store.log), !.wrapped = TRUE],
                         S(<<"service">>))
    IN  [s EXCEPT !.pc = "task_returned", !.result = wrapper_result(s),
                  !.task_service = finally_cleanup(s, TRUE)]

sync_task_wrapper(n, opts, created) ==
    /\ CanStartRun
    /\ loader.caller \in {"none", "sync"}
    /\ sync.run > 0 => opts = sync.opts
    /\ instances # <<>> => n = Len(instances)
    /\ LET s == IF created THEN task_service_created(opts) ELSE task_service_fails(opts)
       IN  /\ sync' = s
           /\ remote' = SyncRemotes([i \in 1..n |-> Instance(i)], s)
    /\ instances' = [i \in 1..n |-> Instance(i)]
    /\ loader' = NoLoader
    /\ UNCHANGED <<pure, fetch_options, task, results, store>>

\* OdooNeo4jSyncService.cleanup: if self._neo4j_loader: close it and set it to
\* None; an exception of close() is caught and logged, the loader is kept
cleanup(l, ok) == IF l.driver # "none" /\ ok THEN NoLoader ELSE l

\* app.sync_task_wrapper: the result is returned, or the exception is caught and
\* an error result returned; then the "finally" clause.  close() is what can
\* raise inside cleanup, and is called only when there is a loader
sync_task_return(ok) ==
    /\ sync.wrapped
    /\ sync.pc \in {"returned", "raised"}
    /\ loader.driver = "none" => ok
    /\ sync' = [sync EXCEPT !.pc = "task_returned",
                            !.result = wrapper_result(sync),
                            !.task_service = finally_cleanup(sync, ok)]
    /\ loader' = cleanup(loader, ok)
    /\ UNCHANGED <<pure, fetchVars, store>>

sync_category_done(reply) ==
    /\ sync.pc = "category"
    /\ LET module_ids == fetch_modules_by_category(reply)
           s == IF module_ids.raised THEN sync_raises(sync, module_ids.message)
                ELSE with_module_ids(sync, module_ids.value)
       IN  /\ sync' = s
           /\ remote' = [remote EXCEPT ![1] = SyncIssues(Reply(@, reply), s)]
    /\ UNCHANGED <<pure, instances, fetch_options, task, results, loader, store>>

sync_forward_done(reply) ==
    /\ sync.pc = "forward"
    /\ LET s == sync_after_forward(sync, fetch_module_graph(reply))
       IN  /\ sync' = s
           /\ remote' = [remote EXCEPT ![1] = SyncIssues(Reply(@, reply), s)]
           /\ loader' = get_neo4j_loader(s)
    /\ UNCHANGED <<pure, instances, fetch_options, task, results, store>>

sync_reverse_done(reply) ==
    /\ sync.pc = "reverse"
    /\ LET s == sync_after_reverse(sync, fetch_reverse_graph(reply))
       IN  /\ sync' = s
           /\ remote' = [remote EXCEPT ![1] = Reply(@, reply)]
           /\ loader' = get_neo4j_loader(s)
    /\ UNCHANGED <<pure, instances, fetch_options, task, results, store>>

\* fault variant of finally_close: the driver is closed on the success path only
ClosedOnSuccessOnly(l) ==
    IF l.pc = "raised" THEN [l EXCEPT !.pc = "idle"]
    ELSE [l EXCEPT !.pc = "idle", !.driver = "closed"]

\* finally: loader.close()   (self._neo4j_loader keeps the closed loader)
finally_close(l) == [l EXCEPT !.pc = "idle", !.driver = "closed"]

\* ingest returned: the success result, then "finally: loader.close()"
sync_return ==
    /\ sync.pc = "loading"
    /\ loader.caller = "sync"
    /\ loader.pc = "returned"
    /\ sync' = [sync EXCEPT !.pc = "returned",
                            !.result = [status |-> "success",
                                        stats |-> [nodes |-> Len(sync.graph.nodes),
                                                   edges |-> Len(sync.graph.edges)]]]
    /\ loader' = finally_close(loader)
    /\ UNCHANGED <<pure, fetchVars, store>>

\* create_schema or ingest raised: re-raised after "finally: loader.close()"
sync_reraise ==
    /\ sync.pc = "loading"
    /\ loader.caller = "sync"
    /\ loader.pc = "raised"
    /\ sync' = sync_raises(sync, loader.exception)
    /\ loader' = finally_close(loader)
    /\ UNCHANGED <<pure, fetchVars, store>>

\* test_loader.main: Neo4jLoader(...), loader.ingest(graph)
test_loader_main(graph) ==
    /\ NotStarted
    /\ remote = <<>>
    /\ loader.driver = "none"
    /\ loader' = Neo4jLoader("test", "ingest", graph, 0)
    /\ UNCHANGED <<pure, fetchVars, sync, store>>

\* Neo4jLoader.ingest called again, with the same graph, on a loader whose ingest
\* has returned
ingest ==
    /\ loader.caller = "test"
    /\ loader.pc = "returned"
    /\ Cardinality({k \in 1..Len(store.log) : store.log[k].op = "ingest"}) < MaxRuns
    /\ loader' = [loader EXCEPT !.pc = "ingest", !.groups = <<>>, !.session = "none"]
    /\ UNCHANGED <<pure, fetchVars, sync, store>>

\* test_loader.main: "except Exception: log" and "finally: loader.close()"
test_loader_close ==
    /\ loader.caller = "test"
    /\ loader.pc \in {"returned", "raised"}
    /\ loader' = [loader EXCEPT !.pc = "closed", !.driver = "closed"]
    /\ UNCHANGED <<pure, fetchVars, sync, store>>

LoaderNext ==
    \/ \E ok \in BOOLEAN : create_schema_constraint(ok)
    \/ \E ok \in BOOLEAN : create_schema_index(ok)
    \/ ingest_node_match
    \/ \E ok \in BOOLEAN : ingest_nodes(ok)
    \/ ingest_edge_match
    \/ \E ok \in BOOLEAN : ingest_edge_group(ok)
    \/ ingest_session_exit
    \/ \E ok \in BOOLEAN : ingest_verify(ok)

SyncNext ==
    \/ \E opts \in SyncOptions : sync_modules(opts)
    \/ \E n \in ConfiguredInstances : \E opts \in SyncOptions : \E created \in BOOLEAN :
          sync_task_wrapper(n, opts, created)
    \/ \E ok \in BOOLEAN : sync_task_return(ok)
    \/ ingest
    \/ \E reply \in SyncReplies("category") : sync_category_done(reply)
    \/ \E reply \in SyncReplies("forward") : sync_forward_done(reply)
    \/ \E reply \in SyncReplies("reverse") : sync_reverse_done(reply)
    \/ sync_return
    \/ sync_reraise
    \/ \E graph \in IngestGraphs : test_loader_main(graph)
    \/ test_loader_close
    \/ LoaderNext

Next == FetchNext \/ SyncNext

Spec == Init /\ [][Next]_vars

SpecSync == Init /\ [][SyncNext]_vars

---------------------------------------------------------------------------
(* Claims about the whole source and about the loader *)

\* C4: when the reverse fetch of a source fails after its forward fetch succeeded,
\* fetch_instance_data returns an error result without a fragment (also in the
\* list fetch_all returns), and sync_modules raises without having acquired a
\* loader or sent a statement to the store in that run.
C4_ReverseFailureFailsSource ==
    /\ \A i \in Tasks :
          ReverseFailed(i) =>
             /\ task[i].pc = "returned"
             /\ task[i].response.status = "error"
             /\ IsNone(task[i].response.data)
             /\ results.returned =>
                   /\ results.list[i].status = "error"
                   /\ IsNone(results.list[i].data)
    /\ (sync.pc # "idle" /\ ReverseFailed(1)) =>
          /\ sync.pc \in {"raised", "task_returned"}
          /\ sync.pc = "task_returned" => sync.result.status = "error"
          /\ IsNone(sync.graph)
          /\ loader.run # sync.run
          /\ Len(store.log) = sync.stmts

\* C4 witness: a forward fetch answered a graph, the reverse fetch then failed,
\* and fetch_all has returned
C4_Witness ==
    /\ results.returned
    /\ \E i \in Tasks :
          /\ Response(200, [result |-> P12]) \in RepliesTo(i, "forward")
          /\ ReverseFailed(i)

\* second witness of C4's case, in sync_modules
C4_SyncCase ==
    /\ sync.pc = "raised"
    /\ Response(200, [result |-> P12]) \in RepliesTo(1, "forward")
    /\ ReverseFailed(1)

\* the index in store.log at which the ingest that issued statement k began
IngestStart(k) ==
    CHOOSE s \in 1..k :
        /\ store.log[s].op = "ingest"
        /\ \A j \in (s + 1)..k : store.log[j].op # "ingest"

\* C10: in every ingest the node transaction has committed before an edge
\* transaction begins, and after a failed node transaction no edge transaction
\* begins.
C10_NodesBeforeEdges ==
    \A k \in 1..Len(store.log) :
        store.log[k].op = "edges_begin" =>
            /\ \E j \in IngestStart(k)..k : store.log[j].op = "nodes_commit"
            /\ \A j \in IngestStart(k)..k : store.log[j].op # "nodes_fail"

\* C10 witness: two edge transactions ran after the node transaction committed
C10_Witness ==
    /\ loader.pc = "returned"
    /\ \E j, k \in 1..Len(store.log) :
          /\ j < k
          /\ store.log[j].op = "edges_commit"
          /\ store.log[k].op = "edges_commit"

\* C10 witness of the failure case: the node transaction failed and ingest raised
C10_NodeFailure ==
    /\ loader.pc = "raised"
    /\ \E k \in 1..Len(store.log) : store.log[k].op = "nodes_fail"

---------------------------------------------------------------------------
(* Claims about the loader's writes (SpecSync) *)

\* the ingest that has just returned loaded the graph that the ingest before it
\* had loaded, with no write to the database in between
LoadedAgain ==
    /\ loader.pc = "returned"
    /\ store.begin.loaded = loader.graph

\* C11: loading is idempotent: when an ingest of a graph returns and the ingest
\* before it had loaded the same graph, the node records and the relationships
\* of the store are what they were when the second ingest began.
C11_LoadIdempotent ==
    LoadedAgain =>
        /\ store.nodes = store.begin.nodes
        /\ store.rels = store.begin.rels

\* C11 witness: a graph with a mapped edge was loaded twice; the store holds its
\* node records and its relationship
C11_Witness ==
    /\ LoadedAgain
    /\ Cardinality(DOMAIN store.nodes) = 2
    /\ DOMAIN store.rels # {}

\* a value the store accepts as a property: a primitive, or a list of primitives
\* of one type
Homogeneous(list) == (\A i \in 1..Len(list) : IsInt(list[i])) \/
                     (\A i \in 1..Len(list) : IsStr(list[i]))
Storable(v) == IsScalar(v) \/ (IsList(v) /\ Homogeneous(v.list))

Sanitized(properties, record) ==
    \A k \in DOMAIN properties :
        IF Storable(properties[k])
        THEN k \in DOMAIN record /\ record[k] = properties[k]
        ELSE k \notin DOMAIN record

\* the node transaction of the current ingest has run
NodesSent == loader.pc \in {"edge_match", "edges", "verify", "returned"}

\* C12: the record sent to the store for a node or an edge holds a property of
\* the graph exactly when its value is a primitive or a homogeneous list of
\* primitives, with that value; nested maps, None, lists with a non-primitive
\* and lists mixing primitive types are absent.
C12_SanitizedProperties ==
    NodesSent =>
        /\ \A i \in 1..Len(loader.graph.nodes) :
              Sanitized(loader.graph.nodes[i].properties, nodes_data(loader.graph)[i])
        /\ \A i \in 1..Len(loader.graph.edges) :
              Sanitized(loader.graph.edges[i].properties, edges_data(loader.graph)[i])

\* the call of sync_modules (made directly or by sync_task_wrapper) returned success
SyncSucceeded ==
    /\ sync.pc \in {"returned", "task_returned"}
    /\ sync.result.status = "success"

\* every edge of the graph between two nodes of the graph is a relationship of the
\* store between the records of its endpoints, labelled with the edge's kind
EdgesStored(graph) ==
    \A i \in 1..Len(graph.edges) :
        LET e == graph.edges[i]
        IN  ({e.source, e.target} \subseteq NodeIds(graph)) =>
               <<odoo_id(e.source), odoo_id(e.target), e.type>> \in DOMAIN store.rels

\* C13: after a sync run that ended with status success every forward and every
\* reverse edge of the fetched graph whose endpoints are nodes of the graph is a
\* relationship of the store (DEPENDS_ON, REQUIRED_BY), and so is an edge of type
\* DEPENDS_ON of a graph passed directly to Neo4jLoader.ingest.
C13_EdgesReachStore ==
    /\ SyncSucceeded => EdgesStored(sync.graph)
    /\ (loader.caller = "test" /\ loader.pc = "returned") =>
          \A i \in 1..Len(loader.graph.edges) :
             loader.graph.edges[i].type = S(<<"DEPENDS", "ON">>) =>
                EdgesStored(Graph(loader.graph.nodes, <<loader.graph.edges[i]>>))

\* the relationship a mapped edge is stored as: dependency as DEPENDS_ON,
\* reverse_dependency as REQUIRED_BY
MappedKinds == {S(<<"dependency">>), S(<<"reverse", "dependency">>)}
StoredAs(e) ==
    <<odoo_id(e.source), odoo_id(e.target),
      IF e.type = S(<<"dependency">>) THEN S(<<"DEPENDS", "ON">>)
      ELSE S(<<"REQUIRED", "BY">>)>>
MappedEdges(graph) ==
    {graph.edges[i] : i \in {j \in 1..Len(graph.edges) : graph.edges[j].type \in MappedKinds}}
UnmappedEdges(graph) ==
    {graph.edges[i] : i \in {j \in 1..Len(graph.edges) : graph.edges[j].type \notin MappedKinds}}

\* the edge loop of the current ingest has ended without an exception
EdgesDone == loader.pc \in {"verify", "returned"}

\* C14: when the edge loop of an ingest has ended, every relationship of the store
\* is that of an edge of a mapped kind (an edge of an unmapped kind has created
\* none, under any label), the records of all nodes and the relationships of all
\* mapped edges with stored endpoints are in the store; and an ingest raises in
\* its edge loop only after the transaction of a mapped group failed.
C14_UnmappedSkipped ==
    /\ EdgesDone =>
          /\ \A key \in DOMAIN store.rels :
                \E e \in MappedEdges(loader.graph) : StoredAs(e) = key
          /\ \A i \in 1..Len(loader.graph.nodes) :
                nodes_data(loader.graph)[i]["id"] \in DOMAIN store.nodes
          /\ \A e \in MappedEdges(loader.graph) :
                ({StoredAs(e)[1], StoredAs(e)[2]} \subseteq DOMAIN store.nodes) =>
                   StoredAs(e) \in DOMAIN store.rels
    /\ (loader.pc = "raised" /\ loader.exception = Neo4jError("edges")) =>
          /\ store.log[Len(store.log)].op = "edges_fail"
          /\ store.log[Len(store.log)].label \in {S(<<"DEPENDS", "ON">>), S(<<"REQUIRED", "BY">>)}

\* C14 witness: a graph with an edge of kind "mystery" and edges of both mapped
\* kinds was loaded: ingest returned, the store holds the two mapped relationships
C14_Witness ==
    /\ loader.pc = "returned"
    /\ \E e \in UnmappedEdges(loader.graph) : e.type = S(<<"mystery">>)
    /\ Cardinality(DOMAIN store.rels) = 2
    /\ Cardinality(DOMAIN store.nodes) = 2

\* C15: once the node transaction of an ingest has committed, the store holds for
\* every node of the graph a record whose id is the id of the GraphNode.
C15_StoredUnderGivenId ==
    NodesSent =>
        \A i \in 1..Len(loader.graph.nodes) :
            LET X == loader.graph.nodes[i].id
            IN  /\ X \in DOMAIN store.nodes
                /\ store.nodes[X]["id"] = X

---------------------------------------------------------------------------
(* Claims about failures and the connection (SpecSync) *)

\* the index in store.log after which the statements of the current run follow:
\* for sync_modules the length of the trace when it was called, for a direct
\* ingest the entry before its "ingest"
LastIngest ==
    LET S0 == {k \in 1..Len(store.log) : store.log[k].op = "ingest"}
    IN  IF S0 = {} THEN 0 ELSE CHOOSE k \in S0 : \A j \in S0 : j <= k
RunStart ==
    IF loader.caller = "sync" THEN sync.stmts
    ELSE IF LastIngest = 0 THEN 0 ELSE LastIngest - 1
RunOps == {store.log[k].op : k \in (RunStart + 1)..Len(store.log)}

\* C16: when a schema statement (constraint or index) has failed in a run, the
\* run performs no node and no edge upsert, and the failure is raised: ingest or
\* create_schema is left by the exception, and sync_modules re-raises it (to
\* sync_task_wrapper, which may have returned since, in a wrapped run).
C16_SchemaFailureFatal ==
    (loader.caller # "none" /\ "schema_fail" \in RunOps) =>
        /\ RunOps \cap {"nodes_begin", "edges_begin"} = {}
        /\ loader.exception = Neo4jError("schema")
        /\ loader.caller = "test" => loader.pc \in {"raised", "closed"}
        /\ loader.caller = "sync" =>
              \/ sync.pc = "loading" /\ loader.pc = "raised"
              \/ /\ sync.pc \in {"raised", "task_returned"}
                 /\ sync.exception = Neo4jError("schema")
                 /\ loader.pc = "idle"

\* C16 witness: the index statement failed inside ingest, after the create_schema
\* of sync_modules had succeeded, and sync_modules raised
C16_Witness ==
    /\ sync.pc = "raised"
    /\ sync.exception = Neo4jError("schema")
    /\ "ingest" \in RunOps
    /\ store.log[Len(store.log)].op = "schema_fail"
    /\ store.log[Len(store.log) - 1].op = "constraint"

\* the labels of the edge groups the current run has committed
CommittedLabels ==
    {store.log[k].label :
        k \in {j \in (RunStart + 1)..Len(store.log) : store.log[j].op = "edges_commit"}}

\* C17: after a node or edge transaction of a load has failed, no later
\* transaction of that load begins, the exception leaves ingest (and sync_modules
\* re-raises it), and what the load had committed before is still in the store:
\* the node records, and the relationships of the edge groups committed earlier.
C17_BatchFailureAborts ==
    /\ \A k, j \in 1..Len(store.log) :
          (/\ k < j
           /\ store.log[k].op \in {"nodes_fail", "edges_fail"}
           /\ store.log[j].op \in {"nodes_begin", "edges_begin"}) =>
              \E i \in k..j : store.log[i].op = "ingest"
    /\ (loader.caller # "none" /\ RunOps \cap {"nodes_fail", "edges_fail"} # {}) =>
          /\ loader.exception \in {Neo4jError("nodes"), Neo4jError("edges")}
          /\ loader.caller = "test" => loader.pc \in {"raised", "closed"}
          /\ loader.caller = "sync" =>
                \/ sync.pc = "loading" /\ loader.pc = "raised"
                \/ /\ sync.pc \in {"raised", "task_returned"}
                   /\ sync.exception = loader.exception
    /\ (loader.caller # "none" /\ "edges_fail" \in RunOps) =>
          /\ \A i \in 1..Len(loader.graph.nodes) :
                nodes_data(loader.graph)[i]["id"] \in DOMAIN store.nodes
          /\ \A e \in MappedEdges(loader.graph) :
                (/\ StoredAs(e)[3] \in CommittedLabels
                 /\ {StoredAs(e)[1], StoredAs(e)[2]} \subseteq DOMAIN store.nodes) =>
                    StoredAs(e) \in DOMAIN store.rels

\* C17 witness: the nodes and the DEPENDS_ON group were committed, the REQUIRED_BY
\* group failed, ingest raised, and the DEPENDS_ON relationship is in the store
C17_Witness ==
    /\ loader.pc = "raised"
    /\ loader.exception = Neo4jError("edges")
    /\ CommittedLabels = {S(<<"DEPENDS", "ON">>)}
    /\ Cardinality(DOMAIN store.rels) = 1
    /\ Cardinality(DOMAIN store.nodes) = 2

\* C18: the step that runs the post-load verification reads always ends with
\* ingest returning, without an exception, whether the reads succeed or fail, and
\* it changes neither the node records nor the relationships of the store.
C18_VerificationNeverGates ==
    [][loader.pc = "verify" =>
          /\ loader'.pc = "returned"
          /\ IsNone(loader'.exception)
          /\ store'.nodes = store.nodes
          /\ store'.rels = store.rels]_vars

\* C18 witness: the verification reads failed and sync_modules returned success
C18_Witness ==
    /\ sync.pc = "returned"
    /\ sync.result.status = "success"
    /\ store.log[Len(store.log)].op = "verify_fail"

\* the call of sync_modules has returned or raised to its caller
RunEnded == sync.pc \in {"returned", "raised", "task_returned"}

C20_OwnOpenConnection ==
    (loader.caller = "sync" /\ loader.pc # "idle") =>
        /\ loader.run = sync.run
        /\ loader.driver = "open"

---------------------------------------------------------------------------
(* Claims about what a run reports and when it loads (SpecSync) *)

\* the statements of the given kind that the current call of sync_modules sent
SyncStmts(op) == {k \in (sync.stmts + 1)..Len(store.log) : store.log[k].op = op}

\* the node records the run's node transaction upserted
NodesWritten ==
    IF SyncStmts("nodes_commit") = {} THEN 0 ELSE Len(nodes_data(sync.graph))

\* the edges of the run's graph for which a committed edge transaction found both
\* endpoints and upserted the relationship
EdgesWritten ==
    Cardinality({i \in 1..Len(sync.graph.edges) :
        LET e == sync.graph.edges[i]
        IN  /\ e.type \in MappedKinds
            /\ \E k \in SyncStmts("edges_commit") : store.log[k].label = StoredAs(e)[3]
            /\ StoredAs(e) \in DOMAIN store.rels})

\* C21: the counts a successful run reports are the counts written: stats.nodes
\* is the number of node records upserted and stats.edges the number of
\* relationships upserted, so an edge skipped for its kind is not reported.
C21_ReportedCountsWritten ==
    SyncSucceeded =>
        /\ sync.result.stats.nodes = NodesWritten
        /\ sync.result.stats.edges = EdgesWritten

\* fetch_all was called with an empty list of instances and has returned
ZeroSources == results.returned /\ instances = <<>>

\* C22: a run with zero configured sources is rejected with an error before any
\* remote call: no request is issued, and what fetch_all returns reports the
\* error; the run does not complete with an empty result.
C22_ZeroSourcesRejected ==
    ZeroSources =>
        /\ remote = <<>>
        /\ results.list # <<>>
        /\ \A i \in 1..Len(results.list) : results.list[i].status = "error"

\* source i was sent a request in the current run of the service / one of its
\* calls failed / its result is success
Asked(i) == remote[i].requests # <<>>
CategoryFailed(i) == \E reply \in RepliesTo(i, "category") : ~GraphReply(reply)
SyncSourceFailed(i) == CategoryFailed(i) \/ ForwardFailed(i) \/ ReverseFailed(i)
SyncSourceSucceeded(i) == Asked(i) /\ ~SyncSourceFailed(i)

\* a run started by sync_task_wrapper has ended after it sent a request
WrappedRunOver ==
    /\ sync.pc = "task_returned"
    /\ \E i \in 1..Len(remote) : Asked(i)

\* the node ids the forward fragment of source i contributes under the run's name
FragmentNodeIds(i) ==
    UNION { {node_id(sync.opts.instance_name, reply.body["result"].nodes[k]["id"]) :
                k \in 1..Len(reply.body["result"].nodes)} :
            reply \in {r \in RepliesTo(i, "forward") : GraphReply(r)} }

\* C23: when a run over the configured sources has ended, every configured source
\* has a result; if at least one succeeded the run has loaded (sent statements to
\* the store), the loaded graph holds the fragment of every successful source,
\* and without a successful source there is no graph.
C23_LoadsSuccessfulSources ==
    WrappedRunOver =>
        /\ \A i \in 1..Len(instances) : Asked(i)
        /\ (\E i \in 1..Len(instances) : SyncSourceSucceeded(i)) =>
              /\ Len(store.log) > sync.stmts
              /\ ~IsNone(sync.graph)
              /\ \A i \in 1..Len(instances) :
                    SyncSourceSucceeded(i) => FragmentNodeIds(i) \subseteq NodeIds(sync.graph)
        /\ (\A i \in 1..Len(instances) : ~SyncSourceSucceeded(i)) => IsNone(sync.graph)

---------------------------------------------------------------------------
(* Claims about the RPC helpers (SpecMerge) *)

\* the response was read by the client and its body has an error field
HasErrorField(reply) ==
    /\ reply.kind = "response"
    /\ reply.status < 400
    /\ "error" \in DOMAIN reply.body

\* the message text occurs in the text of the exception
Carries(text, message) ==
    \E k \in 1..Len(text.str) :
        /\ k + Len(message.str) - 1 <= Len(text.str)
        /\ SubSeq(text.str, k, k + Len(message.str) - 1) = message.str

RaisedWith(outcome, error) ==
    /\ outcome.raised
    /\ IsNone(outcome.value)
    /\ "message" \in DOMAIN error => Carries(outcome.message, error["message"])

\* C24: a response with an error field is never returned as a fragment:
\* OdooJsonRPC.call and _make_rpc_request (and the fetch method that called it)
\* raise, also when the response has a result field too, and the exception's text
\* carries the message of the remote error.
C24_ErrorFieldRaises ==
    (pure.op \in {"call", "rpc"} /\ HasErrorField(pure.reply)) =>
        /\ RaisedWith(pure.result, pure.reply.body["error"])
        /\ pure.op = "rpc" => RaisedWith(pure.fetched, pure.reply.body["error"])

\* C24 witness: OdooJsonRPC.call raised on a response that has both an error and a
\* result field
C24_Witness ==
    /\ pure.op = "call"
    /\ HasErrorField(pure.reply)
    /\ "result" \in DOMAIN pure.reply.body
    /\ pure.result.raised
    /\ pure.result.message = S(<<"Odoo API error", "access denied">>)

---------------------------------------------------------------------------
(* Claims about the order of a run's steps (SpecSync) *)

\* the statements of the kind that the run sent before statement k
SyncStmtsBefore(op, k) == {j \in SyncStmts(op) : j < k}

\* C25: in every sync run schema bootstrap is executed exactly once, after the
\* fetched fragments were merged and before the first node write: the run sends
\* the constraint statement and the index statement at most once each, both only
\* once the graph exists, and once each before its node transaction.
C25_SchemaOnce ==
    sync.run > 0 =>
        /\ Cardinality(SyncStmts("constraint")) <= 1
        /\ Cardinality(SyncStmts("index")) <= 1
        /\ SyncStmts("constraint") # {} => ~IsNone(sync.graph)
        /\ \A k \in SyncStmts("nodes_begin") :
              /\ Cardinality(SyncStmtsBefore("constraint", k)) = 1
              /\ Cardinality(SyncStmtsBefore("index", k)) = 1

---------------------------------------------------------------------------
(* Claims about the identity of the records (SpecSync) *)

\* C26: the identity fields of an upsert record are not replaced by the item's
\* own properties: the record sent for a node has the node's canonical id (and
\* its name and instance) and is stored under that id, the record sent for an
\* edge has the canonical ids of the edge's endpoints and the edge's kind, and
\* nodes with different canonical ids are different records of the store.
C26_IdentityNotOverridden ==
    NodesSent =>
        /\ \A i \in 1..Len(loader.graph.nodes) :
              LET n == loader.graph.nodes[i]
                  record == nodes_data(loader.graph)[i]
              IN  /\ record["id"] = odoo_id(n.id)
                  /\ record["name"] = n.name
                  /\ record["instance"] = n.instance
                  /\ odoo_id(n.id) \in DOMAIN store.nodes
        /\ \A i \in 1..Len(loader.graph.edges) :
              LET e == loader.graph.edges[i]
                  record == edges_data(loader.graph)[i]
              IN  /\ record["source"] = odoo_id(e.source)
                  /\ record["target"] = odoo_id(e.target)
                  /\ record["type"] = e.type
        /\ Cardinality(DOMAIN store.nodes) >= Cardinality(NodeIds(loader.graph))

\* the run is waiting for the answer to a request / has received a graph answer
\* to its request of the endpoint
Fetching == sync.pc \in {"category", "forward", "reverse"}
Answered(endpoint) == \E reply \in RepliesTo(1, endpoint) : GraphReply(reply)

\* every fetch the run's options ask for has returned successfully
FetchingDone ==
    /\ ~SyncSourceFailed(1)
    /\ ~Fetching
    /\ Answered("forward")
    /\ sync.opts.include_reverse => Answered("reverse")
    /\ (sync.opts.module_ids = <<>>) => Answered("category")

\* C27: loading starts only after all fetching of the run has finished: while a
\* fetch is outstanding, and after a fetch has failed, the run has acquired no
\* loader, holds no open connection and has sent no statement, so the store is as
\* it was when the run began; a statement of the run is sent only after the
\* category lookup, the forward and (when requested) the reverse fetch returned.
C27_LoadAfterFetch ==
    sync.run > 0 =>
        /\ (Fetching \/ SyncSourceFailed(1)) =>
              /\ loader.run # sync.run
              /\ loader.driver # "open"
              /\ loader.pc = "idle"
              /\ Len(store.log) = sync.stmts
        /\ Len(store.log) > sync.stmts => FetchingDone
        /\ (loader.caller = "sync" /\ loader.pc # "idle") => FetchingDone

\* C27 witness: the second run on a store that the first run had written to
\* failed in its reverse fetch, after the category lookup and the forward fetch
\* had returned, and sent no statement
C27_Witness ==
    /\ sync.run = 2
    /\ sync.pc = "raised"
    /\ Answered("category")
    /\ Answered("forward")
    /\ ReverseFailed(1)
    /\ DOMAIN store.nodes # {}
    /\ Len(store.log) = sync.stmts

\* C28: in sync_modules no category lookup, forward or reverse request is issued
\* to the source unless a health check of the source has answered healthy
\* earlier in the same run.
C28_HealthCheckedFirst ==
    sync.run > 0 =>
        \A i \in 1..Len(remote) :
            \A k \in 1..Len(remote[i].requests) :
                remote[i].requests[k] \in {"category", "forward", "reverse"} =>
                    \E h \in 1..(k - 1) :
                        /\ remote[i].requests[h] = "healthcheck"
                        /\ HealthyReply(remote[i].replies[h])

---------------------------------------------------------------------------
(* Claims about the relationships of the store (SpecSync) *)

\* C29: in every reachable state of the store each relationship connects two
\* node records of the store; the edge phase creates no node (after the node
\* transaction the node records are those the ingest began with, updated by the
\* node records of its graph), and an edge with an endpoint that is no node
\* record creates no relationship.
C29_RelationshipsBetweenNodes ==
    /\ \A key \in DOMAIN store.rels :
          key[1] \in DOMAIN store.nodes /\ key[2] \in DOMAIN store.nodes
    /\ NodesSent =>
          store.nodes = merge_nodes(store.begin.nodes, nodes_data(loader.graph))
    /\ EdgesDone =>
          \A e \in MappedEdges(loader.graph) :
             ~({StoredAs(e)[1], StoredAs(e)[2]} \subseteq DOMAIN store.nodes) =>
                 StoredAs(e) \notin DOMAIN store.rels

\* C29 witness: the transaction of an edge whose target was not upserted as a
\* node committed, and the store has the source's record and no relationship
C29_Witness ==
    /\ loader.pc = "returned"
    /\ \E k \in 1..Len(store.log) : store.log[k].op = "edges_commit"
    /\ \E e \in MappedEdges(loader.graph) : StoredAs(e)[2] \notin DOMAIN store.nodes
    /\ DOMAIN store.nodes # {}
    /\ DOMAIN store.rels = {}

---------------------------------------------------------------------------
(* Claims about a failed forward fetch (SpecFetch) *)

\* the replies with which the forward fetch of source i failed
ForwardFailures(i) == {reply \in RepliesTo(i, "forward") : ~GraphReply(reply)}

\* C30: when the forward fetch of a source fails, the source's task returns an
\* error result whose message is that of the exception the call raised, no
\* reverse request is issued to the source, and no other source fails for it: a
\* task with an error result had a failed call of its own, a task that has not
\* returned can take its next step, and fetch_all returns success for every
\* source without a failed call.
C30_ForwardFailureFailsSourceOnly ==
    \A i \in Tasks :
        ForwardFailed(i) =>
            /\ task[i].pc = "returned"
            /\ task[i].response.status = "error"
            /\ IsNone(task[i].response.data)
            /\ \E reply \in ForwardFailures(i) :
                  task[i].response.error = call(instances[i], reply).message
            /\ \A k \in 1..Len(remote[i].requests) : remote[i].requests[k] # "reverse"
            /\ \A j \in Tasks \ {i} :
                  /\ task[j].response.status = "error" => SourceFailed(j)
                  /\ task[j].pc # "returned" => ENABLED TaskStep(j)
                  /\ results.returned =>
                        (results.list[j].status = "success" <=> ~SourceFailed(j))

\* C30 witness: fetch_all returned, the forward fetch of one source timed out and
\* another source's result is success
C30_Witness ==
    /\ results.returned
    /\ fetch_options.include_reverse
    /\ \E i, j \in Tasks :
          /\ Timeout \in RepliesTo(i, "forward")
          /\ results.list[i].status = "error"
          /\ results.list[j].status = "success"

---------------------------------------------------------------------------
(* Claims about the module ids of a run (SpecSync) *)

\* the requests the current run has sent to its instance
RunRequests == remote[1].requests
RunRequested(endpoint) == \E k \in 1..Len(RunRequests) : RunRequests[k] = endpoint

\* the ids the category lookup of the run answered
CategoryIds ==
    UNION { {fetch_modules_by_category(reply).value} :
            reply \in {r \in RepliesTo(1, "category") : GraphReply(r)} }

\* C31: the module ids a run queries are the explicit ids of its options when it
\* has any (no category lookup is made); otherwise, with category prefixes, the
\* ids the category lookup answered; and with neither ids nor prefixes the run
\* falls back to a default id: it sends the forward request and does not end
\* with a warning and without fetching.
C31_ModuleIdResolution ==
    sync.run > 0 =>
        /\ sync.opts.module_ids # <<>> =>
              /\ ~RunRequested("category")
              /\ RunRequested("forward")
              /\ sync.module_ids = sync.opts.module_ids
        /\ (sync.opts.module_ids = <<>> /\ sync.opts.category_prefixes # <<>>) =>
              /\ RunRequests[1] = "category"
              /\ RunRequested("forward") => sync.module_ids \in CategoryIds
        /\ (sync.opts.module_ids = <<>> /\ sync.opts.category_prefixes = <<>>) =>
              /\ RunRequested("forward")
              /\ sync.module_ids # <<>>
              /\ sync.pc = "returned" => sync.result.status # "warning"

---------------------------------------------------------------------------
(* Claims about the exception of a failed write (SpecSync) *)

\* the last statement sent to the store
LastStmt == store.log[Len(store.log)]

\* the class of an exception value
ErrorClass(e) == e.str[1]

\* e is a store write error tagged with the phase and carrying the cause
IsStoreWriteError(e, phase, cause) ==
    /\ ErrorClass(e) = "StoreWriteError"
    /\ e.str[2] = phase
    /\ SubSeq(e.str, 3, Len(e.str)) = cause.str

\* C32: the exception that leaves ingest, and then sync_modules, after a failed
\* node transaction is a store write error tagged "node" that carries the
\* driver's error, and after a failed edge transaction one tagged "edge".
C32_WriteFailureNamesPhase ==
    /\ (loader.pc = "raised" /\ LastStmt.op = "nodes_fail") =>
          IsStoreWriteError(loader.exception, "node", Neo4jError("nodes"))
    /\ (loader.pc = "raised" /\ LastStmt.op = "edges_fail") =>
          IsStoreWriteError(loader.exception, "edge", Neo4jError("edges"))
    /\ (sync.pc = "raised" /\ Len(store.log) > sync.stmts) =>
          /\ LastStmt.op = "nodes_fail" =>
                IsStoreWriteError(sync.exception, "node", Neo4jError("nodes"))
          /\ LastStmt.op = "edges_fail" =>
                IsStoreWriteError(sync.exception, "edge", Neo4jError("edges"))

---------------------------------------------------------------------------
(* Claims about sync_task_wrapper (SpecSync) *)

\* sync_task_wrapper has returned
TaskReturned == sync.wrapped /\ sync.pc = "task_returned"

\* C33: sync_task_wrapper returns a value after every run; when the run failed
\* (a request, a schema statement or a write raised, or the task service could
\* not be created) the value has status error; and a task service that was
\* created has had its cleanup called by then, whether or not closing the
\* loader raised inside it.  Only a service that was never created is left
\* without cleanup.
C33_WrapperNeverRaises ==
    TaskReturned =>
        /\ ~IsNone(sync.result)
        /\ ~IsNone(sync.exception) => sync.result.status = "error"
        /\ sync.task_service \in {"none", "cleaned", "cleanup_failed"}
        /\ sync.task_service = "none" => sync.exception = S(<<"service">>)
        /\ sync.task_service = "cleaned" => loader.driver = "none"

\* C33 witness: the wrapper returned the error result of a run whose node
\* transaction failed, and closing the loader raised inside cleanup
C33_Witness ==
    /\ TaskReturned
    /\ sync.exception = Neo4jError("nodes")
    /\ sync.result.status = "error"
    /\ sync.task_service = "cleanup_failed"

---------------------------------------------------------------------------
(* Claims about the post-ingest verification (SpecSync) *)

---------------------------------------------------------------------------
(* Claims about a run without modules (SpecSync) *)

\* the category lookup of the current run answered a graph without nodes
CategoryFoundNothing ==
    /\ sync.run > 0
    /\ sync.opts.module_ids = <<>>
    /\ \E reply \in RepliesTo(1, "category") :
          GraphReply(reply) /\ reply.body["result"].nodes = <<>>

\* C35: when a run has no module ids and its category lookup answers no module,
\* sync_modules returns status warning; the run sends no forward and no reverse
\* request, constructs and opens no loader, and sends no statement to the store,
\* whose contents are those at the start of the run.
C35_NoModulesNoLoad ==
    CategoryFoundNothing =>
        /\ sync.pc \in {"returned", "task_returned"}
        /\ sync.result = [status |-> "warning", stats |-> None]
        /\ IsNone(sync.exception)
        /\ RunRequests = <<"category">>
        /\ loader.run # sync.run
        /\ loader.driver # "open"
        /\ loader.pc = "idle"
        /\ Len(store.log) = sync.stmts
        /\ sync.stmts = 0 => store = EmptyStore

\* C35 witness: the second run of a service, after a run that loaded a graph,
\* returned the warning for a category without modules
C35_Witness ==
    /\ CategoryFoundNothing
    /\ sync.pc = "returned"
    /\ sync.run = 2
    /\ sync.stmts > 0

====
